---------------------------- MODULE Spec2Model ----------------------------
(***************************************************************************)
(* Career-assistant scoring engine: skill matching, gap analysis, learning *)
(* path planning (src/src/ai_pipeline_simple.py) and the percentile rank   *)
(* of the peer benchmark (src/src/ai_career_benchmarking_assistant.py,     *)
(* src/src/enhanced_peer_benchmarking.py).                                 *)
(*                                                                         *)
(* Conventions.  Python strings are TLA+ strings, handled character by     *)
(* character with Len, SubSeq and \o.  Python floats that the code only    *)
(* compares or rounds are kept exact as fractions num/den of integers:     *)
(* a weight w is stored as the integer 10*w (the code's weight * 10), a    *)
(* semantic similarity s as the integer 100*s, and a value rounded with    *)
(* round(x, 1) as the integer 10*round(x, 1) ("tenths").                   *)
(***************************************************************************)
EXTENDS Integers, Sequences, FiniteSets, TLC

VARIABLES
  career_skills_df,  \* the career requirement table loaded at construction
  courses_df,        \* the course catalog loaded at construction
  user_skills,       \* the caller's skills argument: a list (items) or a str (text)
  target_career,     \* the caller's target career argument
  similarities,      \* skill_matching: the TF-IDF similarity (x100) per career
  value,             \* _calculate_percentile: the value argument
  data_list,         \* _calculate_percentile: the population argument
  cap_inputs,        \* skill_matching, line 147: final_score, the number of rows
                     \* and required_match_percentage the safety checks start from
  sample_size,       \* _generate_realistic_peer_group: the sample_size argument
  peers,             \* _generate_realistic_peer_group: the list peers
  used_combinations, \* _generate_realistic_peer_group: the set of used peer_ids
  attempts,          \* _generate_realistic_peer_group: the counter of the while loop
  sample,            \* _generate_realistic_peer_group: experience, education and
                     \* salary as the last pass of the while loop left them
  pc,                \* _generate_realistic_peer_group: where the call stands
                     \* ("idle" when no call is under way)
  op,                \* the last operation that returned ("none" before any)
  result             \* what that operation returned

vars ==
  <<career_skills_df, courses_df, user_skills, target_career, similarities,
    value, data_list, cap_inputs,
    sample_size, peers, used_combinations, attempts, sample, pc, op, result>>

\* the tables loaded at construction and the arguments of the calls
inputs ==
  <<career_skills_df, courses_df, user_skills, target_career, similarities,
    value, data_list, cap_inputs>>

\* the locals of _generate_realistic_peer_group
generation ==
  <<sample_size, peers, used_combinations, attempts, sample, pc>>

---------------------------------------------------------------------------
(* Python str primitives                                                   *)

UpperChars ==
  "ABCDEFGHIJKLMNOPQRSTUVWXYZ"

LowerChars ==
  "abcdefghijklmnopqrstuvwxyz"

\* one character of str.lower()
LowerChar(c) ==
  IF \E i \in 1..Len(UpperChars) : SubSeq(UpperChars, i, i) = c
    THEN LET i == CHOOSE k \in 1..Len(UpperChars) : SubSeq(UpperChars, k, k) = c
         IN  SubSeq(LowerChars, i, i)
    ELSE c

RECURSIVE lower(_)
\* str.lower()
lower(s) ==
  IF Len(s) = 0 THEN s
  ELSE LowerChar(SubSeq(s, 1, 1)) \o lower(SubSeq(s, 2, Len(s)))

\* the Python test  s in t  on two strings
contains(t, s) ==
  \/ Len(s) = 0
  \/ \E i \in 1..(Len(t) - Len(s) + 1) : SubSeq(t, i, i + Len(s) - 1) = s

\* whitespace, as str.strip() and the regex class \s see it
IsSpace(c) ==
  c \in {" ", "\t", "\n", "\r"}

RECURSIVE strip(_)
\* str.strip()
strip(s) ==
  IF Len(s) = 0 THEN s
  ELSE IF IsSpace(SubSeq(s, 1, 1)) THEN strip(SubSeq(s, 2, Len(s)))
  ELSE IF IsSpace(SubSeq(s, Len(s), Len(s))) THEN strip(SubSeq(s, 1, Len(s) - 1))
  ELSE s

\* s[i:] starts with prefix p, letter case ignored (re.IGNORECASE)
StartsWithAt(s, i, p) ==
  /\ i + Len(p) - 1 <= Len(s)
  /\ lower(SubSeq(s, i, i + Len(p) - 1)) = lower(p)

RECURSIVE SkipSpaces(_, _)
\* the index after the run of whitespace that starts at i (regex \s*)
SkipSpaces(s, i) ==
  IF i <= Len(s) /\ IsSpace(SubSeq(s, i, i)) THEN SkipSpaces(s, i + 1) ELSE i

RECURSIVE split(_, _)
\* str.split(sep) for a one-character separator
split(s, sep) ==
  IF \E i \in 1..Len(s) : SubSeq(s, i, i) = sep
    THEN LET i == CHOOSE k \in 1..Len(s) :
                     /\ SubSeq(s, k, k) = sep
                     /\ \A j \in 1..(k - 1) : SubSeq(s, j, j) # sep
         IN  <<SubSeq(s, 1, i - 1)>> \o split(SubSeq(s, i + 1, Len(s)), sep)
    ELSE <<s>>

RECURSIVE join(_, _)
\* sep.join(items)
join(items, sep) ==
  IF Len(items) = 0 THEN ""
  ELSE IF Len(items) = 1 THEN items[1]
  ELSE items[1] \o sep \o join(Tail(items), sep)

\* the elements of a sequence
Range(seq) ==
  {seq[i] : i \in 1..Len(seq)}

---------------------------------------------------------------------------
(* Synonym tables                                                          *)

\* the dict skill_synonyms local to _expand_skills_with_synonyms, in source order:
\* <<canonical skill, <<synonyms>>>>
skill_synonyms ==
 <<
  <<"python", <<"python", "py", "python3", "python3.8", "python3.9", "python3.10">>>>,
  <<"sql", <<"sql", "mysql", "postgresql", "sqlite", "tsql", "plsql", "database", "db", "rdbms">>>>,
  <<"java", <<"java", "jdk", "jvm", "spring", "maven", "gradle">>>>,
  <<"javascript", <<"javascript", "js", "ecmascript", "es6", "es2015", "es2017", "es2020">>>>,
  <<"c++", <<"c++", "cpp", "c plus plus", "stl", "boost">>>>,
  <<"c#", <<"c#", "csharp", "dotnet", ".net", "asp.net", "entity framework">>>>,
  <<"machine learning", <<"machine learning", "ml", "ai", "artificial intelligence", "deep learning", "neural networks", "predictive modeling">>>>,
  <<"deep learning", <<"deep learning", "neural networks", "cnn", "rnn", "lstm", "transformer", "bert", "gpt">>>>,
  <<"data science", <<"data science", "data scientist", "analytics", "predictive analytics">>>>,
  <<"statistics", <<"statistics", "stats", "statistical analysis", "hypothesis testing", "regression", "correlation", "anova">>>>,
  <<"data visualization", <<"data visualization", "visualization", "viz", "matplotlib", "seaborn", "plotly", "tableau", "powerbi", "d3.js", "ggplot">>>>,
  <<"visualization", <<"visualization", "data visualization", "viz", "charts", "graphs", "dashboards", "data viz">>>>,
  <<"pandas", <<"pandas", "pd", "dataframe", "data manipulation", "data analysis">>>>,
  <<"numpy", <<"numpy", "np", "numerical computing", "arrays", "matrices">>>>,
  <<"scikit-learn", <<"scikit-learn", "sklearn", "machine learning library", "ml library", "scikit">>>>,
  <<"tensorflow", <<"tensorflow", "tf", "deep learning framework", "neural networks", "keras">>>>,
  <<"pytorch", <<"pytorch", "torch", "deep learning", "ml framework", "neural networks">>>>,
  <<"keras", <<"keras", "deep learning", "neural networks", "tensorflow">>>>,
  <<"react", <<"react", "reactjs", "react.js", "jsx", "hooks", "redux", "context">>>>,
  <<"angular", <<"angular", "angularjs", "ng", "angular 2+", "angular material">>>>,
  <<"vue.js", <<"vue", "vue.js", "vuejs", "vue 3", "composition api">>>>,
  <<"node.js", <<"node.js", "nodejs", "node", "express", "npm", "yarn">>>>,
  <<"html", <<"html", "html5", "markup", "semantic html", "accessibility">>>>,
  <<"css", <<"css", "css3", "styling", "responsive design", "flexbox", "grid", "sass", "less">>>>,
  <<"typescript", <<"typescript", "ts", "typed javascript", "type safety">>>>,
  <<"flask", <<"flask", "python web framework", "microframework", "wsgi">>>>,
  <<"django", <<"django", "python web framework", "mvt", "admin panel", "orm">>>>,
  <<"fastapi", <<"fastapi", "python web framework", "async", "api", "pydantic">>>>,
  <<"spring boot", <<"spring boot", "spring", "java framework", "dependency injection", "aop">>>>,
  <<"spring", <<"spring", "spring framework", "spring boot", "java framework">>>>,
  <<"docker", <<"docker", "containerization", "containers", "dockerfile", "docker compose">>>>,
  <<"kubernetes", <<"kubernetes", "k8s", "container orchestration", "microservices", "deployment">>>>,
  <<"aws", <<"aws", "amazon web services", "ec2", "s3", "lambda", "rds", "cloudfront", "route53">>>>,
  <<"azure", <<"azure", "microsoft azure", "cloud computing", "vm", "blob storage", "functions">>>>,
  <<"gcp", <<"gcp", "google cloud platform", "google cloud", "compute engine", "cloud storage">>>>,
  <<"hadoop", <<"hadoop", "apache hadoop", "big data", "mapreduce", "hdfs", "yarn">>>>,
  <<"spark", <<"spark", "apache spark", "big data", "distributed computing", "dataframes", "streaming">>>>,
  <<"kafka", <<"kafka", "apache kafka", "streaming", "message queue", "event streaming">>>>,
  <<"mongodb", <<"mongodb", "nosql", "document database", "mongo", "aggregation">>>>,
  <<"postgresql", <<"postgresql", "postgres", "relational database", "rdbms", "acid">>>>,
  <<"mysql", <<"mysql", "relational database", "rdbms", "maria db", "innodb">>>>,
  <<"redis", <<"redis", "in-memory database", "cache", "key-value store", "data structures">>>>,
  <<"terraform", <<"terraform", "infrastructure as code", "iac", "hashicorp", "provisioning">>>>,
  <<"jenkins", <<"jenkins", "ci/cd", "continuous integration", "automation", "pipeline">>>>,
  <<"git", <<"git", "github", "gitlab", "version control", "vcs", "source control">>>>,
  <<"linux", <<"linux", "unix", "ubuntu", "centos", "debian", "red hat", "shell">>>>,
  <<"selenium", <<"selenium", "web testing", "automated testing", "browser automation", "webdriver">>>>,
  <<"junit", <<"junit", "java testing", "unit testing", "test framework", "tdd">>>>,
  <<"pytest", <<"pytest", "python testing", "unit testing", "test framework", "fixtures">>>>,
  <<"figma", <<"figma", "ui design", "ux design", "prototyping", "design tools", "collaboration">>>>,
  <<"adobe xd", <<"adobe xd", "ux design", "prototyping", "design tools", "wireframing">>>>,
  <<"sketch", <<"sketch", "ui design", "mac design tool", "prototyping", "design systems">>>>,
  <<"agile", <<"agile", "scrum", "kanban", "project management", "iterative", "adaptive">>>>,
  <<"scrum", <<"scrum", "agile methodology", "sprint planning", "standup", "retrospective">>>>,
  <<"jira", <<"jira", "project management", "issue tracking", "agile tools", "atlassian">>>>,
  <<"etl", <<"etl", "extract transform load", "data pipeline", "data integration", "data processing">>>>,
  <<"data modeling", <<"data modeling", "database design", "schema design", "normalization", "erd">>>>,
  <<"api", <<"api", "rest api", "graphql", "web services", "endpoints", "microservices">>>>,
  <<"microservices", <<"microservices", "microservice architecture", "distributed systems", "service mesh">>>>,
  <<"ci/cd", <<"ci/cd", "continuous integration", "continuous deployment", "devops", "automation">>>>,
  <<"mlops", <<"mlops", "machine learning operations", "model deployment", "model monitoring", "ml infrastructure">>>>
 >>

\* the dict returned by _get_skill_synonym_mapping, in source order
skill_synonym_mapping ==
 <<
  <<"python", <<"python", "py", "python3", "python3.8", "python3.9", "python3.10">>>>,
  <<"sql", <<"sql", "mysql", "postgresql", "sqlite", "tsql", "plsql", "database", "db", "rdbms">>>>,
  <<"java", <<"java", "jdk", "jvm", "spring", "maven", "gradle">>>>,
  <<"javascript", <<"javascript", "js", "ecmascript", "es6", "es2015", "es2017", "es2020">>>>,
  <<"c++", <<"c++", "cpp", "c plus plus", "stl", "boost">>>>,
  <<"c#", <<"c#", "csharp", "dotnet", ".net", "asp.net", "entity framework">>>>,
  <<"machine learning", <<"machine learning", "ml", "ai", "artificial intelligence", "deep learning", "neural networks", "predictive modeling">>>>,
  <<"deep learning", <<"deep learning", "neural networks", "cnn", "rnn", "lstm", "transformer", "bert", "gpt">>>>,
  <<"data science", <<"data science", "data scientist", "analytics", "predictive analytics">>>>,
  <<"statistics", <<"statistics", "stats", "statistical analysis", "hypothesis testing", "regression", "correlation", "anova">>>>,
  <<"data visualization", <<"data visualization", "visualization", "viz", "matplotlib", "seaborn", "plotly", "tableau", "powerbi", "d3.js", "ggplot">>>>,
  <<"visualization", <<"visualization", "data visualization", "viz", "charts", "graphs", "dashboards", "data viz">>>>,
  <<"pandas", <<"pandas", "pd", "dataframe", "data manipulation", "data analysis">>>>,
  <<"numpy", <<"numpy", "np", "numerical computing", "arrays", "matrices">>>>,
  <<"scikit-learn", <<"scikit-learn", "sklearn", "machine learning library", "ml library", "scikit">>>>,
  <<"tensorflow", <<"tensorflow", "tf", "deep learning framework", "neural networks", "keras">>>>,
  <<"pytorch", <<"pytorch", "torch", "deep learning", "ml framework", "neural networks">>>>,
  <<"keras", <<"keras", "deep learning", "neural networks", "tensorflow">>>>,
  <<"react", <<"react", "reactjs", "react.js", "jsx", "hooks", "redux", "context">>>>,
  <<"angular", <<"angular", "angularjs", "ng", "angular 2+", "angular material">>>>,
  <<"vue.js", <<"vue", "vue.js", "vuejs", "vue 3", "composition api">>>>,
  <<"node.js", <<"node.js", "nodejs", "node", "express", "npm", "yarn">>>>,
  <<"html", <<"html", "html5", "markup", "semantic html", "accessibility">>>>,
  <<"css", <<"css", "css3", "styling", "responsive design", "flexbox", "grid", "sass", "less">>>>,
  <<"typescript", <<"typescript", "ts", "typed javascript", "type safety">>>>,
  <<"flask", <<"flask", "python web framework", "microframework", "wsgi">>>>,
  <<"django", <<"django", "python web framework", "mvt", "admin panel", "orm">>>>,
  <<"fastapi", <<"fastapi", "python web framework", "async", "api", "pydantic">>>>,
  <<"spring boot", <<"spring boot", "spring", "java framework", "dependency injection", "aop">>>>,
  <<"spring", <<"spring", "spring framework", "spring boot", "java framework">>>>,
  <<"docker", <<"docker", "containerization", "containers", "dockerfile", "docker compose">>>>,
  <<"kubernetes", <<"kubernetes", "k8s", "container orchestration", "microservices", "deployment">>>>,
  <<"aws", <<"aws", "amazon web services", "ec2", "s3", "lambda", "rds", "cloudfront", "route53">>>>,
  <<"azure", <<"azure", "microsoft azure", "cloud computing", "vm", "blob storage", "functions">>>>,
  <<"gcp", <<"gcp", "google cloud platform", "google cloud", "compute engine", "cloud storage">>>>,
  <<"hadoop", <<"hadoop", "apache hadoop", "big data", "mapreduce", "hdfs", "yarn">>>>,
  <<"spark", <<"spark", "apache spark", "big data", "distributed computing", "dataframes", "streaming">>>>,
  <<"kafka", <<"kafka", "apache kafka", "streaming", "message queue", "event streaming">>>>,
  <<"mongodb", <<"mongodb", "nosql", "document database", "mongo", "aggregation">>>>,
  <<"postgresql", <<"postgresql", "postgres", "relational database", "rdbms", "acid">>>>,
  <<"mysql", <<"mysql", "relational database", "rdbms", "maria db", "innodb">>>>,
  <<"redis", <<"redis", "in-memory database", "cache", "key-value store", "data structures">>>>,
  <<"terraform", <<"terraform", "infrastructure as code", "iac", "hashicorp", "provisioning">>>>,
  <<"jenkins", <<"jenkins", "ci/cd", "continuous integration", "automation", "pipeline">>>>,
  <<"git", <<"git", "github", "gitlab", "version control", "vcs", "source control">>>>,
  <<"linux", <<"linux", "unix", "ubuntu", "centos", "debian", "red hat", "shell">>>>,
  <<"selenium", <<"selenium", "web testing", "automated testing", "browser automation", "webdriver">>>>,
  <<"junit", <<"junit", "java testing", "unit testing", "test framework", "tdd">>>>,
  <<"pytest", <<"pytest", "python testing", "unit testing", "test framework", "fixtures">>>>,
  <<"figma", <<"figma", "ui design", "ux design", "prototyping", "design tools", "collaboration">>>>,
  <<"adobe xd", <<"adobe xd", "ux design", "prototyping", "design tools", "wireframing">>>>,
  <<"sketch", <<"sketch", "ui design", "mac design tool", "prototyping", "design systems">>>>,
  <<"agile", <<"agile", "scrum", "kanban", "project management", "iterative", "adaptive">>>>,
  <<"scrum", <<"scrum", "agile methodology", "sprint planning", "standup", "retrospective">>>>,
  <<"jira", <<"jira", "project management", "issue tracking", "agile tools", "atlassian">>>>,
  <<"etl", <<"etl", "extract transform load", "data pipeline", "data integration", "data processing">>>>,
  <<"data modeling", <<"data modeling", "database design", "schema design", "normalization", "erd">>>>,
  <<"api", <<"api", "rest api", "graphql", "web services", "endpoints", "microservices">>>>,
  <<"microservices", <<"microservices", "microservice architecture", "distributed systems", "service mesh">>>>,
  <<"ci/cd", <<"ci/cd", "continuous integration", "continuous deployment", "devops", "automation">>>>,
  <<"mlops", <<"mlops", "machine learning operations", "model deployment", "model monitoring", "ml infrastructure">>>>
 >>

---------------------------------------------------------------------------
(* Skill Normalizer                                                        *)

\* the smallest element of a set of positive integers, 0 for the empty set
MinOrZero(S) ==
  IF S = {} THEN 0 ELSE CHOOSE i \in S : \A j \in S : i <= j

\* the index of the first entry of the table _get_skill_synonyms stops at
\* (its for ... break loop), 0 when no entry matches
FirstSynonymEntry(table, skill_lower) ==
  MinOrZero({i \in 1..Len(table) :
               \/ skill_lower = lower(table[i][1])
               \/ skill_lower \in {lower(s) : s \in Range(table[i][2])}})

\* the alternative of _get_skill_synonyms that looks a skill up by its
\* canonical name only
get_skill_synonyms_canonical_only(skill_name) ==
  {skill_name}
    \cup UNION {Range(skill_synonym_mapping[i][2]) :
                  i \in {k \in 1..Len(skill_synonym_mapping) :
                           lower(skill_name) = lower(skill_synonym_mapping[k][1])}}

\* _get_skill_synonyms: list(set(synonyms)), as a set
get_skill_synonyms(skill_name) ==
  LET i == FirstSynonymEntry(skill_synonym_mapping, lower(skill_name))
  IN  {skill_name} \cup (IF i = 0 THEN {} ELSE Range(skill_synonym_mapping[i][2]))

\* _expand_skills_with_synonyms, lines 389-412, for one user skill: what
\* the direct lookup and then the two containment tests against every
\* entry of the table append
ExpandOne(skill) ==
  LET skill_lower == lower(skill)
  IN  UNION {Range(skill_synonyms[i][2]) :
               i \in {k \in 1..Len(skill_synonyms) :
                        \/ skill_synonyms[k][1] = skill_lower
                        \/ contains(skill_synonyms[k][1], skill_lower)
                        \/ contains(skill_lower, skill_synonyms[k][1])
                        \/ \E synonym \in Range(skill_synonyms[k][2]) :
                             \/ contains(synonym, skill_lower)
                             \/ contains(skill_lower, synonym)}}

\* _expand_skills_with_synonyms: the returned list, as a set (its only
\* caller turns it into a set of lower-cased names)
expand_skills_with_synonyms(skills) ==
  Range(skills) \cup UNION {ExpandOne(skills[i]) : i \in 1..Len(skills)}

---------------------------------------------------------------------------
(* Proficiency levels                                                      *)

\* the level names both regexes of _parse_user_skills accept
LevelNames ==
  <<"Beginner", "Intermediate", "Advanced">>

\* _determine_skill_level
determine_skill_level(skill, default_level) ==
  LET skill_lower == lower(skill)
  IN  IF Len(default_level) > 0 /\ Len(strip(default_level)) > 0 THEN default_level
      ELSE IF skill_lower \in {"python", "java", "javascript", "c++", "c#", "go",
                               "rust", "swift", "kotlin", "sql", "r"}
        THEN "Intermediate"
      ELSE IF skill_lower \in {"numpy", "pandas", "seaborn", "matplotlib",
                               "scikit-learn", "sklearn"}
        THEN "Intermediate"
      ELSE IF skill_lower \in {"tensorflow", "pytorch", "kubernetes", "docker", "spark",
                               "hadoop", "kafka", "elasticsearch", "deep learning",
                               "neural networks"}
        THEN "Advanced"
      ELSE IF skill_lower \in {"git", "jupyter", "excel", "powerpoint", "word",
                               "data visualization", "data cleaning"}
        THEN "Beginner"
      ELSE IF skill_lower \in {"machine learning", "statistics", "feature engineering",
                               "model evaluation", "a/b testing"}
        THEN "Intermediate"
      ELSE IF skill_lower = "business intelligence" THEN "Beginner"
      ELSE IF skill_lower \in {"react", "vue.js", "node.js", "django"} THEN "Intermediate"
      ELSE IF skill_lower \in {"angular", "spring boot"} THEN "Advanced"
      ELSE IF skill_lower \in {"flask", "express.js"} THEN "Beginner"
      ELSE IF skill_lower \in {"aws", "azure", "gcp", "heroku", "digitalocean"}
        THEN "Intermediate"
      ELSE IF skill_lower \in {"communication", "leadership", "teamwork",
                               "problem solving", "critical thinking", "creativity"}
        THEN "Intermediate"
      ELSE "Beginner"

\* the level name that starts at s[i], as typed, or "" when none does
LevelAt(s, i) ==
  LET k == MinOrZero({h \in 1..Len(LevelNames) : StartsWithAt(s, i, LevelNames[h])})
  IN  IF k = 0 THEN "" ELSE SubSeq(s, i, i + Len(LevelNames[k]) - 1)

\* the rest of pattern 1 after group 1:  \s*\(\s*(Level)\s*\)  from s[i];
\* the level as typed, or "" when the rest does not match
ParenRest(s, i) ==
  LET j1 == SkipSpaces(s, i)
      j2 == SkipSpaces(s, j1 + 1)
      lv == LevelAt(s, j2)
      j3 == SkipSpaces(s, j2 + Len(lv))
  IN  IF /\ j1 <= Len(s) /\ SubSeq(s, j1, j1) = "("
         /\ Len(lv) > 0
         /\ j3 <= Len(s) /\ SubSeq(s, j3, j3) = ")"
        THEN lv ELSE ""

\* the rest of pattern 2 after group 1:  \s*[-:]\s*(Level)  from s[i]
DashRest(s, i) ==
  LET j1 == SkipSpaces(s, i)
  IN  IF j1 <= Len(s) /\ SubSeq(s, j1, j1) \in {"-", ":"}
        THEN LevelAt(s, SkipSpaces(s, j1 + 1)) ELSE ""

\* the rest of a pattern after group 1, from s[i]
PatternRest(pattern, s, i) ==
  IF pattern = "paren" THEN ParenRest(s, i) ELSE DashRest(s, i)

\* re.match of a pattern  (.+?) rest : the lazy group 1 is the shortest
\* non-empty prefix after which the rest matches
LazyMatch(s, pattern) ==
  LET k == MinOrZero({h \in 1..Len(s) : Len(PatternRest(pattern, s, h + 1)) > 0})
  IN  IF k = 0 THEN [matched |-> FALSE, skill |-> s, level |-> ""]
      ELSE [matched |-> TRUE,
            skill   |-> strip(SubSeq(s, 1, k)),
            level   |-> strip(PatternRest(pattern, s, k + 1))]

\* the loop body of _parse_user_skills for one stripped, non-empty entry
ParseEntry(skill_input) ==
  LET paren_match == LazyMatch(skill_input, "paren")
      dash_match  == LazyMatch(skill_input, "dash")
  IN  IF paren_match.matched
        THEN [skill |-> paren_match.skill, level |-> paren_match.level]
      ELSE IF dash_match.matched
        THEN [skill |-> dash_match.skill, level |-> dash_match.level]
      ELSE [skill |-> skill_input, level |-> determine_skill_level(skill_input, "")]

\* [x.strip() for x in parts if x.strip()]
StripNonEmpty(parts) ==
  SelectSeq([i \in 1..Len(parts) |-> strip(parts[i])], LAMBDA x : Len(x) > 0)

\* _parse_user_skills
parse_user_skills(user_skills_input) ==
  LET skills_list == IF contains(user_skills_input, "\n")
                       THEN StripNonEmpty(split(user_skills_input, "\n"))
                       ELSE StripNonEmpty(split(user_skills_input, ","))
  IN  [i \in 1..Len(skills_list) |-> ParseEntry(skills_list[i])]

---------------------------------------------------------------------------
(* Arithmetic                                                              *)

\* 10 * round(num / den, 1) for num >= 0, den > 0: the nearest tenth, an
\* exact tie going to the even tenth
RoundTenths(num, den) ==
  LET q == (10 * num) \div den
      r == (10 * num) % den
  IN  IF 2 * r > den THEN q + 1
      ELSE IF 2 * r < den THEN q
      ELSE IF q % 2 = 0 THEN q ELSE q + 1

RECURSIVE SumImportance(_)
\* sum of the importance column of a sequence of rows
SumImportance(rows) ==
  IF Len(rows) = 0 THEN 0 ELSE rows[1].importance + SumImportance(Tail(rows))

\* the alternative of the weight sum that counts every row as 1.0
SumWeight_unweighted(rows) ==
  10 * Len(rows)

RECURSIVE SumWeight(_)
\* sum of weight * 10 over a sequence of rows
SumWeight(rows) ==
  IF Len(rows) = 0 THEN 0 ELSE rows[1].weight + SumWeight(Tail(rows))

RECURSIVE InsertByImportance_unstable(_, _)
\* the alternative that puts x before the elements of equal importance
InsertByImportance_unstable(sorted, x) ==
  IF Len(sorted) = 0 THEN <<x>>
  ELSE IF sorted[1].importance > x.importance
    THEN <<sorted[1]>> \o InsertByImportance_unstable(Tail(sorted), x)
  ELSE <<x>> \o sorted

RECURSIVE InsertByImportance(_, _)
\* x put into a sequence ordered by importance, highest first, after the
\* elements of equal importance already there
InsertByImportance(sorted, x) ==
  IF Len(sorted) = 0 THEN <<x>>
  ELSE IF sorted[1].importance >= x.importance
    THEN <<sorted[1]>> \o InsertByImportance(Tail(sorted), x)
  ELSE <<x>> \o sorted

RECURSIVE SortedByImportance(_)
\* sorted(rows, key=lambda x: x['importance'], reverse=True): stable
SortedByImportance(rows) ==
  IF Len(rows) = 0 THEN <<>>
  ELSE InsertByImportance(SortedByImportance(SubSeq(rows, 1, Len(rows) - 1)),
                          rows[Len(rows)])


---------------------------------------------------------------------------
(* Exact fractions for the float scores                                    *)

RECURSIVE GCD(_, _)
GCD(a, b) ==
  IF b = 0 THEN a ELSE GCD(b, a % b)

\* num/den in lowest terms (num >= 0, den > 0)
Frac(num, den) ==
  LET g == GCD(num, den)
  IN  [num |-> num \div g, den |-> den \div g]

FracAdd(a, b) ==
  Frac(a.num * b.den + b.num * a.den, a.den * b.den)

\* a * p / q
FracScale(a, p, q) ==
  Frac(a.num * p, a.den * q)

FracLt(a, b) ==
  a.num * b.den < b.num * a.den

FracLe(a, b) ==
  a.num * b.den <= b.num * a.den

FracMin(a, b) ==
  IF FracLe(a, b) THEN a ELSE b

\* an integer as a fraction
FracInt(n) ==
  [num |-> n, den |-> 1]

\* 10 * round(x, 1) of a fraction
FracRoundTenths(x) ==
  RoundTenths(x.num, x.den)

---------------------------------------------------------------------------
(* Soft-skill requirement rows                                             *)

\* the career column of an appended soft-skill row after pd.concat
NaN ==
  "NaN"

\* the dict soft_skills_mapping of _get_soft_skills_for_career: <<career, rows>>
soft_skills_mapping ==
 <<
  <<"Data Scientist", <<
     [career |-> NaN, skill |-> "Communication", difficulty |-> "Intermediate", importance |-> 8, is_required |-> TRUE, category |-> "soft", weight |-> 8],
     [career |-> NaN, skill |-> "Problem Solving", difficulty |-> "Intermediate", importance |-> 9, is_required |-> TRUE, category |-> "soft", weight |-> 9],
     [career |-> NaN, skill |-> "Critical Thinking", difficulty |-> "Intermediate", importance |-> 8, is_required |-> TRUE, category |-> "soft", weight |-> 8],
     [career |-> NaN, skill |-> "Teamwork", difficulty |-> "Intermediate", importance |-> 7, is_required |-> FALSE, category |-> "soft", weight |-> 7],
     [career |-> NaN, skill |-> "Leadership", difficulty |-> "Intermediate", importance |-> 6, is_required |-> FALSE, category |-> "soft", weight |-> 6]
  >>>>,
  <<"Data Engineer", <<
     [career |-> NaN, skill |-> "Communication", difficulty |-> "Intermediate", importance |-> 7, is_required |-> TRUE, category |-> "soft", weight |-> 7],
     [career |-> NaN, skill |-> "Problem Solving", difficulty |-> "Advanced", importance |-> 8, is_required |-> TRUE, category |-> "soft", weight |-> 8],
     [career |-> NaN, skill |-> "Attention to Detail", difficulty |-> "Advanced", importance |-> 9, is_required |-> TRUE, category |-> "soft", weight |-> 9],
     [career |-> NaN, skill |-> "Teamwork", difficulty |-> "Intermediate", importance |-> 6, is_required |-> FALSE, category |-> "soft", weight |-> 6]
  >>>>,
  <<"Machine Learning Engineer", <<
     [career |-> NaN, skill |-> "Communication", difficulty |-> "Intermediate", importance |-> 7, is_required |-> TRUE, category |-> "soft", weight |-> 7],
     [career |-> NaN, skill |-> "Problem Solving", difficulty |-> "Advanced", importance |-> 9, is_required |-> TRUE, category |-> "soft", weight |-> 9],
     [career |-> NaN, skill |-> "Research Skills", difficulty |-> "Advanced", importance |-> 8, is_required |-> TRUE, category |-> "soft", weight |-> 8],
     [career |-> NaN, skill |-> "Creativity", difficulty |-> "Intermediate", importance |-> 6, is_required |-> FALSE, category |-> "soft", weight |-> 6]
  >>>>,
  <<"Software Engineer", <<
     [career |-> NaN, skill |-> "Communication", difficulty |-> "Intermediate", importance |-> 8, is_required |-> TRUE, category |-> "soft", weight |-> 8],
     [career |-> NaN, skill |-> "Problem Solving", difficulty |-> "Advanced", importance |-> 9, is_required |-> TRUE, category |-> "soft", weight |-> 9],
     [career |-> NaN, skill |-> "Teamwork", difficulty |-> "Intermediate", importance |-> 7, is_required |-> TRUE, category |-> "soft", weight |-> 7],
     [career |-> NaN, skill |-> "Time Management", difficulty |-> "Intermediate", importance |-> 6, is_required |-> FALSE, category |-> "soft", weight |-> 6]
  >>>>,
  <<"Frontend Developer", <<
     [career |-> NaN, skill |-> "Communication", difficulty |-> "Intermediate", importance |-> 8, is_required |-> TRUE, category |-> "soft", weight |-> 8],
     [career |-> NaN, skill |-> "Problem Solving", difficulty |-> "Intermediate", importance |-> 7, is_required |-> TRUE, category |-> "soft", weight |-> 7],
     [career |-> NaN, skill |-> "Creativity", difficulty |-> "Intermediate", importance |-> 7, is_required |-> FALSE, category |-> "soft", weight |-> 7],
     [career |-> NaN, skill |-> "User Empathy", difficulty |-> "Intermediate", importance |-> 6, is_required |-> FALSE, category |-> "soft", weight |-> 6]
  >>>>,
  <<"Backend Developer", <<
     [career |-> NaN, skill |-> "Communication", difficulty |-> "Intermediate", importance |-> 7, is_required |-> TRUE, category |-> "soft", weight |-> 7],
     [career |-> NaN, skill |-> "Problem Solving", difficulty |-> "Advanced", importance |-> 8, is_required |-> TRUE, category |-> "soft", weight |-> 8],
     [career |-> NaN, skill |-> "System Thinking", difficulty |-> "Advanced", importance |-> 7, is_required |-> FALSE, category |-> "soft", weight |-> 7]
  >>>>,
  <<"DevOps Engineer", <<
     [career |-> NaN, skill |-> "Communication", difficulty |-> "Intermediate", importance |-> 7, is_required |-> TRUE, category |-> "soft", weight |-> 7],
     [career |-> NaN, skill |-> "Problem Solving", difficulty |-> "Advanced", importance |-> 8, is_required |-> TRUE, category |-> "soft", weight |-> 8],
     [career |-> NaN, skill |-> "Incident Response", difficulty |-> "Advanced", importance |-> 7, is_required |-> FALSE, category |-> "soft", weight |-> 7]
  >>>>,
  <<"Product Manager", <<
     [career |-> NaN, skill |-> "Communication", difficulty |-> "Advanced", importance |-> 10, is_required |-> TRUE, category |-> "soft", weight |-> 10],
     [career |-> NaN, skill |-> "Leadership", difficulty |-> "Advanced", importance |-> 9, is_required |-> TRUE, category |-> "soft", weight |-> 9],
     [career |-> NaN, skill |-> "Problem Solving", difficulty |-> "Advanced", importance |-> 9, is_required |-> TRUE, category |-> "soft", weight |-> 9],
     [career |-> NaN, skill |-> "Strategic Thinking", difficulty |-> "Advanced", importance |-> 8, is_required |-> TRUE, category |-> "soft", weight |-> 8]
  >>>>
 >>

\* default_soft_skills of _get_soft_skills_for_career
default_soft_skills ==
 <<
  [career |-> NaN, skill |-> "Communication", difficulty |-> "Intermediate", importance |-> 8, is_required |-> TRUE, category |-> "soft", weight |-> 8],
  [career |-> NaN, skill |-> "Problem Solving", difficulty |-> "Intermediate", importance |-> 9, is_required |-> TRUE, category |-> "soft", weight |-> 9],
  [career |-> NaN, skill |-> "Teamwork", difficulty |-> "Intermediate", importance |-> 7, is_required |-> FALSE, category |-> "soft", weight |-> 7],
  [career |-> NaN, skill |-> "Leadership", difficulty |-> "Intermediate", importance |-> 6, is_required |-> FALSE, category |-> "soft", weight |-> 6],
  [career |-> NaN, skill |-> "Critical Thinking", difficulty |-> "Intermediate", importance |-> 8, is_required |-> TRUE, category |-> "soft", weight |-> 8]
 >>

\* _get_soft_skills_for_career:
\* soft_skills_mapping.get(career, default_soft_skills)
get_soft_skills_for_career(career) ==
  LET i == MinOrZero({k \in 1..Len(soft_skills_mapping) :
                        soft_skills_mapping[k][1] = career})
  IN  IF i = 0 THEN default_soft_skills ELSE soft_skills_mapping[i][2]

RECURSIVE UniqueInOrder(_)
\* df['career'].unique(): the distinct values in order of first appearance
UniqueInOrder(seq) ==
  IF Len(seq) = 0 THEN <<>>
  ELSE LET front == UniqueInOrder(SubSeq(seq, 1, Len(seq) - 1))
           x     == seq[Len(seq)]
       IN  IF x \in Range(front) THEN front ELSE Append(front, x)

\* the careers of the table, the keys of career_skill_vectors
CareersOf(df) ==
  UniqueInOrder([i \in 1..Len(df) |-> df[i].career])


---------------------------------------------------------------------------
(* The catalogs and requests the model runs on                             *)

\* the largest number of requirement rows of a career in the catalog
MaxRows == 8

\* the largest number of entries in the user's skill list
MaxSkills == 2

\* skill_categories of generate_career_skills_mapping, as weight * 10
CategoryWeight(category) ==
  CASE category = "core"         -> 10
    [] category = "intermediate" -> 7
    [] category = "supporting"   -> 4
    [] category = "soft"         -> 6

\* skill_category_mapping.get(skill, "intermediate")
CategoryOfSkill(skill) ==
  IF skill \in {"Python", "SQL", "Machine Learning", "Deep Learning", "Statistics",
                "Java", "Scikit-learn", "TensorFlow"}
    THEN "core"
  ELSE IF skill \in {"Jupyter", "Git", "Excel", "JIRA"} THEN "supporting"
  ELSE "intermediate"

\* one row of career_skills.csv as generate_career_skills_mapping writes
\* it: importance is int(base_importance * weight), base_importance 7..10
RequirementRow(career, skill, difficulty, base_importance, is_required) ==
  LET category == CategoryOfSkill(skill)
  IN  [career      |-> career,
       skill       |-> skill,
       difficulty  |-> difficulty,
       importance  |-> (base_importance * CategoryWeight(category)) \div 10,
       is_required |-> is_required,
       category    |-> category,
       weight      |-> CategoryWeight(category)]

\* skills of three careers of career_skill_mapping, in its order
CareerSkillNames(career) ==
  IF career = "Data Scientist"
    THEN <<"Python", "SQL", "Machine Learning", "Statistics", "Data Visualization",
           "Pandas", "NumPy", "Scikit-learn", "Jupyter", "Matplotlib">>
  ELSE IF career = "Product Manager"
    THEN <<"Agile", "Scrum", "JIRA">>
    ELSE <<"Python", "Java", "SQL", "Flask", "Spring Boot">>

\* random.choice(difficulty_levels) and random.choice([True, False]) of
\* the generator, drawn per row by a pattern that repeats
RowPatterns ==
  {[difficulty  |-> <<"Advanced", "Advanced", "Intermediate", "Beginner">>,
    is_required |-> <<TRUE, TRUE, TRUE, TRUE>>],
   [difficulty  |-> <<"Beginner", "Intermediate", "Advanced", "Advanced">>,
    is_required |-> <<FALSE, TRUE, FALSE, FALSE>>]}

\* random.randint(7, 10) of the generator, per row
BaseImportances ==
  <<10, 10, 9, 8>>

Cycle(pattern, i) ==
  pattern[((i - 1) % Len(pattern)) + 1]

CareerCatalog(career, n, pattern) ==
  [i \in 1..n |->
     RequirementRow(career, CareerSkillNames(career)[i], Cycle(pattern.difficulty, i),
                    Cycle(BaseImportances, i), Cycle(pattern.is_required, i))]

\* the catalogs a process can have loaded: a Data Scientist with few rows,
\* with MaxRows - 1 and with MaxRows rows, and a Backend Developer with 5;
\* one catalog has a Product Manager with 3 rows as well
Catalogs ==
  {CareerCatalog("Data Scientist", n, p) \o CareerCatalog("Backend Developer", 5, p) :
     n \in {2, MaxRows - 1, MaxRows}, p \in RowPatterns}
    \cup {CareerCatalog("Data Scientist", 2, p) \o CareerCatalog("Backend Developer", 5, p)
             \o CareerCatalog("Product Manager", 3, p) :
           p \in {q \in RowPatterns : q.is_required[1]}}

\* one row of courses.csv as generate_courses_data writes it (rating * 10)
CourseRow(title, skill, level, duration_hours, rating) ==
  [title |-> title, skill |-> skill, level |-> level,
   duration_hours |-> duration_hours, rating |-> rating]

CourseCatalogs ==
  {<<CourseRow("Learn SQL - Advanced Tutorial", "SQL", "Advanced", 12, 47),
     CourseRow("SQL Bootcamp: Advanced Edition", "SQL", "Advanced", 5, 47),
     CourseRow("Advanced Python Techniques", "Python", "Advanced", 20, 41),
     CourseRow("Machine Learning Fundamentals for Intermediate", "Machine Learning",
               "Intermediate", 3, 40),
     CourseRow("Complete SQL Course for Beginner", "SQL", "Beginner", 2, 50)>>}

\* the entries a user types
SkillEntries ==
  <<"Python", "SQL - Intermediate", "SQL (Advanced)", "MySQL (Beginner)", "ML",
    "Machine Learning", "Communication", "Spring">>

RECURSIVE SeqsUpTo(_, _)
\* the sequences over S of length at most n
SeqsUpTo(S, n) ==
  IF n = 0 THEN {<<>>}
  ELSE LET shorter == SeqsUpTo(S, n - 1)
       IN  shorter \cup {Append(s, x) : s \in {t \in shorter : Len(t) = n - 1}, x \in S}

RECURSIVE Picked(_, _)
\* the entries of seq at the positions in S, in the order of seq
Picked(seq, S) ==
  IF Len(seq) = 0 THEN <<>>
  ELSE Picked(SubSeq(seq, 1, Len(seq) - 1), S)
         \o (IF Len(seq) \in S THEN <<seq[Len(seq)]>> ELSE <<>>)

Reversed(seq) ==
  [i \in 1..Len(seq) |-> seq[Len(seq) + 1 - i]]

\* the scenario list: it covers 36 of the 45 points of required importance
\* of a Data Scientist whose catalog requires Python and SQL
ScenarioSkills ==
  <<"Python", "SQL", "Communication", "Critical Thinking">>

AllEntries ==
  Range(SkillEntries) \cup Range(ScenarioSkills)

\* the skill lists of the requests: at most MaxSkills different entries, in
\* the order of SkillEntries or in the opposite order, and the scenario
SkillLists ==
  LET picks == {Picked(SkillEntries, S) :
                  S \in {T \in SUBSET (1..Len(SkillEntries)) : Cardinality(T) <= MaxSkills}}
  IN  picks \cup {Reversed(s) : s \in picks} \cup {ScenarioSkills}

\* the skills argument: a list of entries, or the text of a skills box
SkillArguments ==
  {[type |-> "list", items |-> s, text |-> ""] : s \in SkillLists}
    \cup {[type |-> "str", items |-> <<>>, text |-> join(s, ", ")] : s \in SkillLists}

TargetCareers ==
  {"Data Scientist", "Backend Developer", "Product Manager", "NonexistentCareer"}

\* 100 * the cosine similarity of two TF-IDF vectors: a value in 0..100,
\* here the ends and the two sides of the 0.3 bonus threshold
Similarities ==
  {0, 30, 31, 100}

\* the similarity of the caller's text to each career of the catalog df
SimilarityTables(df) ==
  [Range(CareersOf(df)) -> Similarities]

\* the tables with one similarity for all careers
UniformSimilarityTables(df) ==
  {[c \in Range(CareersOf(df)) |-> s] : s \in {0, 100}}

\* the largest number of peers in the population of a percentile
MaxPeers == 4

\* the largest value (years, salary band or skill count) of a peer
MaxPeerValue == 3

PeerValues ==
  0..MaxPeerValue

\* the cases the safety checks start from: final_score after line 147 on
\* both sides of every threshold and cap (and two values that are not
\* whole), len(all_career_skills) on both sides of 8, and
\* required_match_percentage on both sides of 60 and of 80
CapInputs ==
  [final_score        : {FracInt(n) : n \in {0, 65, 66, 70, 71, 75, 76, 85, 86, 90, 91, 100}}
                          \cup {Frac(1811, 20), Frac(141, 2)},
   total_requirements : {1, 7, 8, 9},
   required_pct       : {FracInt(n) : n \in {0, 59, 60, 79, 80, 100}} \cup {Frac(200, 3)}]

\* skill_matching's top_n: the default and a caller's choice
TopNs ==
  {1, 5}


---------------------------------------------------------------------------
(* The string functions on the strings of the model                        *)
(* Each table below is evaluated once; the operator after it falls back on *)
(* the definition for any other string.                                    *)

\* the skill column of a sequence of rows
SkillNamesOf(rows) ==
  {r.skill : r \in Range(rows)}

\* the skill names of the catalogs and of the soft-skill rows
CatalogSkillNames ==
  UNION {SkillNamesOf(c) : c \in Catalogs}
    \cup UNION {SkillNamesOf(soft_skills_mapping[i][2]) : i \in 1..Len(soft_skills_mapping)}
    \cup SkillNamesOf(default_soft_skills)

\* the entries of the requests, and the skill names parsed out of them
EntryNames ==
  AllEntries \cup {ParseEntry(e).skill : e \in AllEntries}

\* table[key] where the table has the key, the value computed otherwise
TableOr(table, key, otherwise) ==
  IF key \in DOMAIN table THEN table[key] ELSE otherwise

\* {x.lower() for x in names}
LowerAll(names) ==
  {lower(x) : x \in names}

LowerTable ==
  [s \in CatalogSkillNames \cup AllEntries |-> lower(s)]

\* str.lower()
Lowered(s) ==
  TableOr(LowerTable, s, lower(s))

LoweredSynonymsTable ==
  [s \in EntryNames |-> LowerAll(get_skill_synonyms(s))]

\* the lower-cased synonyms of a skill name, the keys gap_analysis maps
LoweredSynonyms(s) ==
  TableOr(LoweredSynonymsTable, s, LowerAll(get_skill_synonyms(s)))

LoweredExpansionTable ==
  [s \in AllEntries |-> LowerAll(expand_skills_with_synonyms(<<s>>))]

\* the lower-cased expansion of one user skill, as skill_matching uses it
LoweredExpansion(s) ==
  TableOr(LoweredExpansionTable, s, LowerAll(expand_skills_with_synonyms(<<s>>)))

DefaultLevelTable ==
  [s \in AllEntries |-> determine_skill_level(s, "")]

\* _determine_skill_level(skill, "")
DefaultLevel(s) ==
  TableOr(DefaultLevelTable, s, determine_skill_level(s, ""))

ParsedTextTable ==
  [t \in {a.text : a \in SkillArguments} |-> parse_user_skills(t)]

\* _parse_user_skills(text)
ParsedText(t) ==
  TableOr(ParsedTextTable, t, parse_user_skills(t))

---------------------------------------------------------------------------
(* Gap Analyzer                                                            *)

\* df[df['career'] == career]
CareerRows(df, career) ==
  SelectSeq(df, LAMBDA r : r.career = career)

\* gap_analysis, lines 490-495: the user's skills as (skill, level)
\* entries; a list is taken entry by entry, each whole entry being the
\* skill name
ParsedUserSkills(skills) ==
  IF skills.type = "str"
    THEN ParsedText(skills.text)
    ELSE [i \in 1..Len(skills.items) |->
            [skill |-> skills.items[i], level |-> DefaultLevel(skills.items[i])]]

\* the keys one parsed entry writes into skill_mapping
MappingKeys(skill_info) ==
  LoweredSynonyms(skill_info.skill)

\* gap_analysis, lines 503-504: skill_mapping after one more entry wrote
\* its keys
Overwritten(before, keys, skill_info) ==
  [k \in (DOMAIN before) \cup keys |-> IF k \in keys THEN skill_info ELSE before[k]]

RECURSIVE SkillMapping(_)
\* gap_analysis, lines 497-504: skill_mapping after the loop over the
\* parsed entries; a later entry overwrites the keys it shares with an
\* earlier one
SkillMapping(parsed) ==
  IF Len(parsed) = 0 THEN <<>>
  ELSE Overwritten(SkillMapping(SubSeq(parsed, 1, Len(parsed) - 1)),
                   MappingKeys(parsed[Len(parsed)]), parsed[Len(parsed)])

\* the alternative of required_missing_count that subtracts every skill
\* the user has, optional ones included
required_missing_count_all_covered(total_required, user_has) ==
  IF total_required - Len(user_has) > 0 THEN total_required - Len(user_has) ELSE 0

\* gap_analysis, line 573: max(0, total_required - required_covered)
required_missing_count_of(total_required, user_has) ==
  LET required_covered == Len(SelectSeq(user_has, LAMBDA s : s.is_required))
  IN  IF total_required - required_covered > 0
        THEN total_required - required_covered ELSE 0

\* the alternative of completion_percentage that uses the count ratio
completion_by_count(user_has, required_skills) ==
  LET covered == Len(SelectSeq(user_has, LAMBDA s : s.is_required))
  IN  IF Len(required_skills) > 0
        THEN RoundTenths(covered * 100, Len(required_skills)) ELSE 0

\* gap_analysis, lines 554-558 and 578: round(completion_percentage, 1)
completion_percentage_of(user_has, required_skills) ==
  LET total_required_importance == SumImportance(required_skills)
      user_required_importance  ==
        SumImportance(SelectSeq(user_has, LAMBDA s : s.is_required))
  IN  IF total_required_importance > 0
        THEN RoundTenths(user_required_importance * 100, total_required_importance)
        ELSE 0

\* the alternative of the career check that finds every career
career_not_found_never(df, career) ==
  FALSE

\* gap_analysis, line 478: target_career not in df['career'].values
career_not_found(df, career) ==
  \A i \in 1..Len(df) : df[i].career # career

\* gap_analysis, lines 517-535: user_has after the loop, each entry with
\* the level of the user's entry that wrote its key last
UserHas(rows, skill_mapping) ==
  LET has == SelectSeq(rows, LAMBDA r : Lowered(r.skill) \in DOMAIN skill_mapping)
  IN  [i \in 1..Len(has) |->
         [skill       |-> has[i].skill,
          difficulty  |-> skill_mapping[Lowered(has[i].skill)].level,
          importance  |-> has[i].importance,
          is_required |-> has[i].is_required,
          category    |-> has[i].category]]

\* the alternative of the missing lists that appends every missing row to
\* both lists, whatever its is_required
MissingOf_unsplit(rows, skill_mapping, is_required) ==
  LET missing == SelectSeq(rows, LAMBDA r : Lowered(r.skill) \notin DOMAIN skill_mapping)
  IN  [i \in 1..Len(missing) |->
         [skill      |-> missing[i].skill,
          difficulty |-> missing[i].difficulty,
          importance |-> missing[i].importance,
          category   |-> missing[i].category]]

\* gap_analysis, lines 536-551: required_missing (is_required TRUE) or
\* optional_missing (FALSE) after the loop, before sorting
MissingOf(rows, skill_mapping, is_required) ==
  LET missing == SelectSeq(rows,
                           LAMBDA r : /\ Lowered(r.skill) \notin DOMAIN skill_mapping
                                      /\ r.is_required = is_required)
  IN  [i \in 1..Len(missing) |->
         [skill      |-> missing[i].skill,
          difficulty |-> missing[i].difficulty,
          importance |-> missing[i].importance,
          category   |-> missing[i].category]]

\* len([s for s in user_has if s['is_required'] == is_required])
CoveredCount(user_has, is_required) ==
  Len(SelectSeq(user_has, LAMBDA s : s.is_required = is_required))

\* round(covered / total * 100, 1) if total > 0 else 0
PercentOf(covered, total) ==
  IF total > 0 THEN RoundTenths(covered * 100, total) ELSE 0

\* the rows of a table with is_required == True
RequiredRows(rows) ==
  SelectSeq(rows, LAMBDA r : r.is_required)

\* gap_analysis, lines 553-594: the returned dict
GapRecord(career, career_requirements, required_skills, optional_skills, user_has, required_missing, optional_missing) ==
  [target_career             |-> career,
   completion_percentage     |-> completion_percentage_of(user_has, required_skills),
   required_completion       |-> PercentOf(CoveredCount(user_has, TRUE),
                                           Len(required_skills)),
   optional_coverage         |-> PercentOf(CoveredCount(user_has, FALSE),
                                           Len(optional_skills)),
   user_has                  |-> user_has,
   required_missing          |-> SortedByImportance(required_missing),
   optional_missing          |-> SortedByImportance(optional_missing),
   total_skills_needed       |-> Len(career_requirements),
   skills_covered            |-> Len(user_has),
   total_required            |-> Len(required_skills),
   total_optional            |-> Len(optional_skills),
   required_covered          |-> CoveredCount(user_has, TRUE),
   optional_covered          |-> CoveredCount(user_has, FALSE),
   total_required_importance |-> SumImportance(required_skills),
   user_required_importance  |-> SumImportance(RequiredRows(user_has)),
   required_missing_count    |-> required_missing_count_of(Len(required_skills), user_has),
   optional_missing_count    |->
     IF Len(optional_skills) - CoveredCount(user_has, FALSE) > 0
       THEN Len(optional_skills) - CoveredCount(user_has, FALSE) ELSE 0]

\* gap_analysis, lines 509-551: the requirements split by is_required and
\* walked by the loop
GapOver(career, career_requirements, skill_mapping) ==
  GapRecord(career, career_requirements,
            RequiredRows(career_requirements),
            SelectSeq(career_requirements, LAMBDA r : ~r.is_required),
            UserHas(career_requirements, skill_mapping),
            MissingOf(career_requirements, skill_mapping, TRUE),
            MissingOf(career_requirements, skill_mapping, FALSE))

\* gap_analysis
gap_analysis(df, skills, career) ==
  IF career_not_found(df, career)
    THEN [error |-> "Career not found"]
    ELSE GapOver(career, CareerRows(df, career) \o get_soft_skills_for_career(career),
                 SkillMapping(ParsedUserSkills(skills)))

---------------------------------------------------------------------------
(* Category Matcher                                                        *)

\* the categories list of _calculate_weighted_matching
categories ==
  <<"core", "intermediate", "supporting", "soft">>

\* the alternative that does not look at the category of a row
InCategory_any(rows, cat) ==
  rows

\* the rows of a category
InCategory(rows, cat) ==
  SelectSeq(rows, LAMBDA r : r.category = cat)

\* the entries of the matched / missing lists appended for the rows of a
\* category; weighted_score is skill_weight * 10
CategoryEntries(rows, cat) ==
  LET in_category == InCategory(rows, cat)
  IN  [i \in 1..Len(in_category) |->
         [skill          |-> in_category[i].skill,
          category       |-> in_category[i].category,
          weight         |-> in_category[i].weight,
          weighted_score |-> in_category[i].weight]]

\* (part / total * 100) if total > 0 else 0, unrounded
FracPercent(part, total) ==
  IF total > 0 THEN Frac(part * 100, total) ELSE FracInt(0)

\* _calculate_weighted_matching, lines 207-246: the rows for which the
\* test skill_name in user_skill_set came out as matched
MatchedRows(rows, user_skill_set, matched) ==
  SelectSeq(rows, LAMBDA r : (Lowered(r.skill) \in user_skill_set) = matched)

\* the lower-cased names added to exact_matches or required_matches
ExactMatches(matched) ==
  {Lowered(r.skill) : r \in Range(matched)}

\* _calculate_weighted_matching, lines 248-289: the returned dict
WeightedAnalysis(rows, required_rows, matched, missing, exact_matches, required_matches) ==
  [exact_matches                |-> exact_matches,
   required_matches             |-> required_matches,
   weighted_match_percentage    |-> FracPercent(SumWeight(matched), SumWeight(rows)),
   required_match_percentage    |->
     FracPercent(Cardinality(required_matches), Len(required_rows)),
   category_scores              |->
     [cat \in Range(categories) |->
        FracPercent(Len(InCategory(matched, cat)), Len(InCategory(rows, cat)))],
   matched_skills_by_category   |->
     [cat \in Range(categories) |-> CategoryEntries(matched, cat)],
   missing_skills_by_category   |->
     [cat \in Range(categories) |-> CategoryEntries(missing, cat)],
   required_missing_by_category |->
     [cat \in Range(categories) |-> CategoryEntries(RequiredRows(missing), cat)],
   score_breakdown              |->
     [total_weighted_score          |-> SumWeight(matched),
      total_possible_weighted_score |-> SumWeight(rows),
      weighted_percentage           |->
        FracRoundTenths(FracPercent(SumWeight(matched), SumWeight(rows))),
      required_matches              |-> Cardinality(required_matches),
      total_required                |-> Len(required_rows),
      required_percentage           |->
        FracRoundTenths(FracPercent(Cardinality(required_matches), Len(required_rows))),
      category_breakdown            |->
        [cat \in Range(categories) |->
           [matched |-> Len(InCategory(matched, cat)),
            total   |-> Len(InCategory(rows, cat)),
            score   |->
              FracRoundTenths(FracPercent(Len(InCategory(matched, cat)),
                                          Len(InCategory(rows, cat))))]]]]

\* _calculate_weighted_matching; weighted scores are weight * 10, the
\* percentages are the unrounded values as fractions
calculate_weighted_matching(user_skill_set, rows, required_rows) ==
  WeightedAnalysis(rows, required_rows,
                   MatchedRows(rows, user_skill_set, TRUE),
                   MatchedRows(rows, user_skill_set, FALSE),
                   ExactMatches(MatchedRows(rows, user_skill_set, TRUE)),
                   ExactMatches(RequiredRows(MatchedRows(rows, user_skill_set, TRUE))))

---------------------------------------------------------------------------
(* Composite Scorer                                                        *)

\* skill_matching, lines 119-123; similarity is 100 * semantic_similarity
base_score_of(weighted_analysis, similarity) ==
  FracAdd(FracAdd(FracScale(weighted_analysis.weighted_match_percentage, 6, 10),
                  FracScale(weighted_analysis.required_match_percentage, 25, 100)),
          Frac(similarity * 15, 100))

\* skill_matching, lines 126-144
bonus_score_of(weighted_analysis, similarity) ==
  LET required_coverage == weighted_analysis.required_match_percentage
      coverage_bonus ==
        IF weighted_analysis.required_matches = {} THEN 0
        ELSE IF FracLe(FracInt(80), required_coverage) THEN 15
        ELSE IF FracLe(FracInt(60), required_coverage) THEN 10
        ELSE IF FracLe(FracInt(40), required_coverage) THEN 5
        ELSE 0
      complementary_bonus ==
        IF 2 * Cardinality(weighted_analysis.exact_matches)
             >= Cardinality(weighted_analysis.required_matches)
          THEN 5 ELSE 0
      similarity_bonus == IF similarity > 30 THEN 5 ELSE 0
  IN  coverage_bonus + complementary_bonus + similarity_bonus

\* skill_matching, line 147
uncapped_final_score(base_score, bonus_score) ==
  FracMin(FracInt(100), FracAdd(base_score, FracInt(bonus_score)))

\* the alternative of the small-catalog check with no cap
small_catalog_cap_absent(final_score, total_requirements) ==
  final_score

\* skill_matching, lines 150-151
small_catalog_cap(final_score, total_requirements) ==
  IF total_requirements < 8 /\ FracLt(FracInt(75), final_score)
    THEN FracMin(FracInt(75), final_score) ELSE final_score

\* the alternative of the score that leaves out min(100, ...) and the caps
final_score_unbounded(weighted_analysis, similarity, total_requirements) ==
  FracAdd(base_score_of(weighted_analysis, similarity),
          FracInt(bonus_score_of(weighted_analysis, similarity)))

\* skill_matching, lines 153-154
required_cap_85(final_score, required_pct) ==
  IF FracLt(FracInt(90), final_score) /\ FracLt(required_pct, FracInt(80))
    THEN FracMin(FracInt(85), final_score) ELSE final_score

\* skill_matching, lines 156-157
required_cap_65(final_score, required_pct) ==
  IF FracLt(FracInt(70), final_score) /\ FracLt(required_pct, FracInt(60))
    THEN FracMin(FracInt(65), final_score) ELSE final_score

\* the alternative of the safety checks written as an if / elif chain: only
\* the first check whose condition holds is applied
safety_checks_first_only(final_score, total_requirements, required_pct) ==
  IF total_requirements < 8 /\ FracLt(FracInt(75), final_score)
    THEN FracMin(FracInt(75), final_score)
  ELSE IF FracLt(FracInt(90), final_score) /\ FracLt(required_pct, FracInt(80))
    THEN FracMin(FracInt(85), final_score)
  ELSE IF FracLt(FracInt(70), final_score) /\ FracLt(required_pct, FracInt(60))
    THEN FracMin(FracInt(65), final_score)
  ELSE final_score

\* skill_matching, lines 149-157: the three safety checks, applied one
\* after the other, each to the score the check before it left
safety_checks(final_score, total_requirements, required_pct) ==
  required_cap_65(
    required_cap_85(small_catalog_cap(final_score, total_requirements), required_pct),
    required_pct)

\* skill_matching, lines 147-157: the score after min(100, ...) and the
\* safety checks
final_score_of(weighted_analysis, similarity, total_requirements) ==
  safety_checks(uncapped_final_score(base_score_of(weighted_analysis, similarity),
                                     bonus_score_of(weighted_analysis, similarity)),
                total_requirements,
                weighted_analysis.required_match_percentage)

RECURSIVE InsertByMatch(_, _)
InsertByMatch(sorted, x) ==
  IF Len(sorted) = 0 THEN <<x>>
  ELSE IF sorted[1].match_percentage >= x.match_percentage
    THEN <<sorted[1]>> \o InsertByMatch(Tail(sorted), x)
  ELSE <<x>> \o sorted

RECURSIVE SortedByMatch(_)
\* career_matches.sort(key=match_percentage, reverse=True): stable
SortedByMatch(matches) ==
  IF Len(matches) = 0 THEN <<>>
  ELSE InsertByMatch(SortedByMatch(SubSeq(matches, 1, Len(matches) - 1)),
                     matches[Len(matches)])

\* skill_matching, lines 159-183: the entry appended for one career
MatchRecord(career, similarity, all_career_skills, required_skills, weighted_analysis) ==
  [career                    |-> career,
   match_percentage          |->
     FracRoundTenths(final_score_of(weighted_analysis, similarity,
                                    Len(all_career_skills))),
   base_score                |-> FracRoundTenths(base_score_of(weighted_analysis, similarity)),
   bonus_score               |-> bonus_score_of(weighted_analysis, similarity),
   semantic_similarity       |-> similarity,
   weighted_match_percentage |->
     FracRoundTenths(weighted_analysis.weighted_match_percentage),
   required_match_percentage |->
     FracRoundTenths(weighted_analysis.required_match_percentage),
   category_scores           |-> weighted_analysis.category_scores,
   matched_skills            |-> weighted_analysis.matched_skills_by_category,
   missing_skills            |-> weighted_analysis.missing_skills_by_category,
   required_missing          |-> weighted_analysis.required_missing_by_category,
   total_career_skills       |-> Len(all_career_skills),
   total_required_skills     |-> Len(required_skills),
   skills_covered            |-> Cardinality(weighted_analysis.exact_matches),
   score_breakdown           |-> weighted_analysis.score_breakdown]

\* the body of skill_matching's loop for one career
CareerMatch(df, user_skill_set, career, similarity) ==
  MatchRecord(career, similarity, CareerRows(df, career),
              RequiredRows(CareerRows(df, career)),
              calculate_weighted_matching(user_skill_set, CareerRows(df, career),
                                          RequiredRows(CareerRows(df, career))))

\* df.head(n), seq[:n]
Head2(seq, n) ==
  SubSeq(seq, 1, IF Len(seq) < n THEN Len(seq) ELSE n)

\* skill_matching, lines 86-87: the lower-cased expanded skills
UserSkillSet(skills) ==
  UNION {LoweredExpansion(skills[i]) : i \in 1..Len(skills)}

\* skill_matching, lines 91-183: one entry per career, in the order of the
\* career profiles
CareerMatches(df, user_skill_set, careers, similarity) ==
  [i \in 1..Len(careers) |->
     CareerMatch(df, user_skill_set, careers[i], similarity[careers[i]])]

\* skill_matching; similarity maps each career to 100 * the cosine
\* similarity sklearn returns for it
skill_matching(df, skills, similarity, top_n) ==
  IF Len(skills) = 0 THEN <<>>
  ELSE Head2(SortedByMatch(CareerMatches(df, UserSkillSet(skills), CareersOf(df),
                                         similarity)),
             top_n)

---------------------------------------------------------------------------
(* Learning Path Planner                                                   *)

\* get_learning_path, lines 881-883
core_skills ==
  {"Python", "SQL", "Statistics", "Machine Learning", "Data Cleaning",
   "Scikit-learn", "Model Evaluation", "Feature Engineering"}

\* get_learning_path, lines 911-915: the three empty phases
PhaseLevels ==
  <<[name |-> "Foundation",   level |-> "Beginner"],
    [name |-> "Intermediate", level |-> "Intermediate"],
    [name |-> "Advanced",     level |-> "Advanced"]>>

\* the alternative of the missing skills that takes every optional one
MissingSkills_all_optional(gap, career) ==
  gap.required_missing \o gap.optional_missing

\* get_learning_path, lines 876-898: the missing skills in planning order
MissingSkills(gap, career) ==
  IF career = "Data Scientist"
    THEN SelectSeq(gap.required_missing, LAMBDA s : s.skill \in core_skills)
           \o SelectSeq(gap.required_missing, LAMBDA s : s.skill \notin core_skills)
           \o Head2(gap.optional_missing, 3)
    ELSE gap.required_missing \o Head2(gap.optional_missing, 3)

\* get_learning_path, lines 918-944: the index (1..3) of the phase a
\* missing skill is appended to
PhaseOf(skill_info) ==
  IF skill_info.category = "soft"
    THEN IF skill_info.skill \in {"Communication", "Teamwork"} THEN 1
         ELSE IF skill_info.skill \in {"Problem Solving", "Critical Thinking"} THEN 2
         ELSE IF skill_info.skill = "Leadership" THEN 3
         ELSE 2
    ELSE IF skill_info.difficulty = "Beginner" THEN 1
         ELSE IF skill_info.difficulty = "Intermediate" THEN 2
         ELSE 3

\* the orders sort_values('rating', ascending=False) may leave the rows
\* idx of the course table in: every arrangement with ratings not
\* increasing (the order of equal ratings is not specified)
RatingOrders(courses, idx) ==
  {o \in [1..Cardinality(idx) -> idx] :
     /\ \A i, j \in DOMAIN o : i # j => o[i] # o[j]
     /\ \A i, j \in DOMAIN o : i < j => courses[o[i]].rating >= courses[o[j]].rating}

RECURSIVE SumHours(_)
SumHours(cs) ==
  IF Len(cs) = 0 THEN 0 ELSE cs[1].duration_hours + SumHours(Tail(cs))

\* get_learning_path, lines 965-972: up to two courses rated 4.3 or more,
\* filled up from the others when there are fewer than two
TopCourses(first, other) ==
  IF Len(first) < 2 /\ Len(other) > 0
    THEN first \o Head2(other, 2 - Len(first))
    ELSE first

\* get_learning_path, lines 957-983: the courses selected from the rows in
\* the sorted order o, each with its low-rating flag
SelectedCourses(courses, o) ==
  LET sorted   == [i \in DOMAIN o |-> courses[o[i]]]
      selected == TopCourses(Head2(SelectSeq(sorted, LAMBDA c : c.rating >= 43), 2),
                             SelectSeq(sorted, LAMBDA c : c.rating < 43))
  IN  [i \in 1..Len(selected) |->
         [title               |-> selected[i].title,
          skill               |-> selected[i].skill,
          level               |-> selected[i].level,
          duration_hours      |-> selected[i].duration_hours,
          rating              |-> selected[i].rating,
          low_rating_warning  |-> selected[i].rating < 43]]

\* get_learning_path, lines 911-915 and 985: phase k with its skills and
\* its selected courses
PhaseRecord(k, skills, selected) ==
  [name    |-> PhaseLevels[k].name,
   level   |-> PhaseLevels[k].level,
   skills  |-> skills,
   courses |-> selected,
   hours   |-> SumHours(selected)]

\* get_learning_path, lines 949-985: what phase k with these skills can
\* come out as, over the rows of the course table for the skills of the
\* phase at the level of the phase
PhaseWith(courses, skills, k) ==
  {PhaseRecord(k, skills, SelectedCourses(courses, o)) :
     o \in RatingOrders(courses,
                        {i \in 1..Len(courses) :
                           /\ courses[i].skill \in SkillNamesOf(skills)
                           /\ courses[i].level = PhaseLevels[k].level})}

\* get_learning_path, lines 947-985: what phase k can come out as
PhaseOutcomes(courses, missing_skills, k) ==
  PhaseWith(courses, SelectSeq(missing_skills, LAMBDA s : PhaseOf(s) = k), k)

\* the alternative of the timeline's week count without the floor of 1
weeks_unfloored(total_study_hours, pace) ==
  total_study_hours \div pace

\* get_learning_path, lines 993-995: max(1, total_study_hours // pace)
weeks_at(total_study_hours, pace) ==
  IF total_study_hours \div pace > 1 THEN total_study_hours \div pace ELSE 1

\* the lower-cased elements a Python loop over the skills argument sees:
\* the entries of a list, the characters of a str
LoweredElements(skills) ==
  IF skills.type = "str"
    THEN {lower(SubSeq(skills.text, i, i)) : i \in 1..Len(skills.text)}
    ELSE {Lowered(s) : s \in Range(skills.items)}

\* get_learning_path, lines 1000-1005
soft_skills_completion_of(missing_skills, skills) ==
  LET soft_skills == SelectSeq(missing_skills, LAMBDA s : s.category = "soft")
      soft_skills_importance == SumImportance(soft_skills)
      soft_skills_matched ==
        SumImportance(SelectSeq(soft_skills,
                                LAMBDA s : Lowered(s.skill) \in LoweredElements(skills)))
      pct == (soft_skills_matched * 100) \div soft_skills_importance
  IN  IF Len(soft_skills) > 0 /\ soft_skills_importance > 0
        THEN IF pct < 100 THEN pct ELSE 100
        ELSE 0

\* the learning path built from the phases p1, p2, p3 (lines 901-908 and
\* 985-1007); only a phase with skills is kept
LearningPath(gap, career, skills, missing_skills, p1, p2, p3) ==
  LET phases == SelectSeq(<<p1, p2, p3>>, LAMBDA p : Len(p.skills) > 0)
      total_course_hours == SumHours([i \in 1..Len(phases) |->
                                        [duration_hours |-> phases[i].hours]])
      total_study_hours  == (total_course_hours * 12) \div 10
  IN  [target_career          |-> career,
       current_completion     |-> gap.completion_percentage,
       technical_completion   |-> gap.required_completion,
       soft_skills_completion |-> soft_skills_completion_of(missing_skills, skills),
       phases                 |-> phases,
       timeline               |->
         [total_course_hours |-> total_course_hours,
          total_study_hours  |-> total_study_hours,
          weeks_10h          |-> weeks_at(total_study_hours, 10),
          weeks_15h          |-> weeks_at(total_study_hours, 15),
          weeks_20h          |-> weeks_at(total_study_hours, 20)]]

\* get_learning_path, lines 900-1007: the paths over every outcome of the
\* three phases
PathsOver(gap, career, skills, courses, missing_skills) ==
  {LearningPath(gap, career, skills, missing_skills, p1, p2, p3) :
     p1 \in PhaseOutcomes(courses, missing_skills, 1),
     p2 \in PhaseOutcomes(courses, missing_skills, 2),
     p3 \in PhaseOutcomes(courses, missing_skills, 3)}

\* get_learning_path, lines 871-874: the gap analysis' error is returned
\* as it is
PathFor(courses, career, skills, gap) ==
  IF "error" \in DOMAIN gap THEN {gap}
  ELSE PathsOver(gap, career, skills, courses, MissingSkills(gap, career))

\* get_learning_path: the results it can return
get_learning_path(df, courses, career, skills) ==
  PathFor(courses, career, skills, gap_analysis(df, skills, career))

---------------------------------------------------------------------------
(* Percentile rank                                                         *)

\* the alternative of the rank that counts the values strictly below
calculate_percentile_exclusive(v, population) ==
  IF Len(population) = 0 THEN 50
  ELSE (Cardinality({i \in 1..Len(population) : population[i] < v}) * 100)
         \div Len(population)

\* _calculate_percentile (both classes): int(position / len * 100); the
\* double product is within 1e-13 of the exact rank, so int() gives its
\* floor for every population of fewer than 50 values
calculate_percentile(v, population) ==
  IF Len(population) = 0 THEN 50
  ELSE (Cardinality({i \in 1..Len(population) : population[i] <= v}) * 100)
         \div Len(population)
---------------------------------------------------------------------------
(* Peer benchmark                                                          *)

\* AICareerBenchmarkingAssistant.career_profiles: the profile of
\* 'Data Scientist' (education_dist by its keys, in dict order)
career_profiles ==
  [c \in {"Data Scientist"} |->
     [core_skills      |-> <<"Python", "SQL", "Machine Learning", "Statistics",
                             "Pandas", "NumPy", "Data Analysis">>,
      emerging_skills  |-> <<"MLOps", "Deep Learning", "TensorFlow", "PyTorch",
                             "AWS", "Docker", "Kubernetes">>,
      soft_skills      |-> <<"Communication", "Problem Solving", "Critical Thinking",
                             "Business Acumen">>,
      base_salary      |-> 95000,
      experience_range |-> <<2, 12>>,
      education_dist   |-> <<"Bachelor's", "Master's", "PhD", "Bootcamp">>]]

\* the largest sample_size of a call
MaxSampleSize == 2

\* the budget of the while loop of _generate_realistic_peer_group
AttemptBudget == 50

\* outcomes of the three random draws of one pass of the while loop:
\* int(np.random.normal(...)), np.random.choice(...) and
\* random.randint(-12000, 20000); the first two give the same experience,
\* education and salary range with different salaries
Draws ==
  {[normal |-> 1, education |-> "Master's", randint |-> 1000],
   [normal |-> 2, education |-> "Master's", randint |-> 3000],
   [normal |-> 7, education |-> "PhD",      randint |-> 6000]}

\* _generate_realistic_peer_group, lines 93-106: experience, education and
\* salary after the draws
SampleOf(career_profile, draw) ==
  LET min_exp == career_profile.experience_range[1]
      max_exp == career_profile.experience_range[2]
      drawn_experience == IF draw.normal > min_exp THEN draw.normal ELSE min_exp
      experience == IF drawn_experience < max_exp THEN drawn_experience ELSE max_exp
      salary == career_profile.base_salary + experience * 7000 + draw.randint
  IN  [experience |-> experience,
       education  |-> draw.education,
       salary     |-> IF salary > 40000 THEN salary ELSE 40000]

\* _generate_realistic_peer_group, line 109: the peer_id of a sample
peer_id(s) ==
  <<s.experience, s.education, s.salary \div 5000>>

\* the skills the random draws of _generate_peer_skills may keep, in the
\* order of the profile
PeerSkillDraws(career_profile) ==
  {career_profile.core_skills,
   <<career_profile.core_skills[1], career_profile.emerging_skills[1],
     career_profile.soft_skills[1]>>,
   <<career_profile.soft_skills[1]>>}

\* _generate_peer_skills, lines 152-154: fewer than 4 skills are filled up
\* with the first two core skills not drawn
generate_peer_skills(career_profile, peer_skills) ==
  IF Len(peer_skills) < 4
    THEN peer_skills
           \o Head2(SelectSeq(career_profile.core_skills,
                              LAMBDA s : s \notin Range(peer_skills)), 2)
    ELSE peer_skills

\* _generate_realistic_peer_group, lines 119-125: the peer appended
PeerOf(s, peer_skills) ==
  [experience_years |-> s.experience,
   education        |-> s.education,
   salary           |-> s.salary,
   skills           |-> peer_skills,
   skill_count      |-> Len(peer_skills)]

\* the peer populations a call of _generate_realistic_peer_group for the
\* career can return
PeerPopulations(career) ==
  SeqsUpTo({PeerOf(SampleOf(career_profiles[career], draw),
                   generate_peer_skills(career_profiles[career], drawn)) :
              draw \in Draws, drawn \in PeerSkillDraws(career_profiles[career])},
           MaxSampleSize)

\* EnhancedPeerBenchmarking.career_skill_mappings: the entry of
\* 'Data Scientist'
career_skill_mappings ==
  [c \in {"Data Scientist"} |->
     [core         |-> <<"Python", "SQL", "Machine Learning", "Statistics", "Pandas",
                         "NumPy", "Scikit-learn">>,
      intermediate |-> <<"R", "TensorFlow", "PyTorch", "Tableau", "Power BI",
                         "Jupyter", "Git">>,
      emerging     |-> <<"MLOps", "Docker", "AWS", "Azure", "Kubernetes",
                         "Apache Spark", "Deep Learning">>,
      soft         |-> <<"Communication", "Problem Solving", "Critical Thinking",
                         "Teamwork">>]]

RECURSIVE AllPeerSkills(_)
\* all_peer_skills: the lower-cased skills of the peers, peer after peer
AllPeerSkills(population) ==
  IF Len(population) = 0 THEN <<>>
  ELSE [i \in 1..Len(population[1].skills) |-> Lowered(population[1].skills[i])]
         \o AllPeerSkills(Tail(population))

\* Counter(elements).most_common(n): <<element, count>> pairs, the highest
\* count first, equal counts in order of first appearance
most_common(elements, n) ==
  LET keys   == UniqueInOrder(elements)
      counts == [i \in 1..Len(keys) |->
                   [skill      |-> keys[i],
                    importance |-> Cardinality({j \in 1..Len(elements) :
                                                  elements[j] = keys[i]})]]
      sorted == SortedByImportance(counts)
  IN  Head2([i \in 1..Len(sorted) |-> <<sorted[i].skill, sorted[i].importance>>], n)

\* AICareerBenchmarkingAssistant._analyze_skills_gap: the returned dict
\* without its skill_overlaps
analyze_skills_gap(skills, career, population, common_skills) ==
  [most_common_skills  |-> common_skills,
   missing_skills      |->
     [core     |-> Head2(SelectSeq(career_profiles[career].core_skills,
                                   LAMBDA s : Lowered(s) \notin Range(skills)), 5),
      emerging |-> Head2(SelectSeq(career_profiles[career].emerging_skills,
                                   LAMBDA s : Lowered(s) \notin Range(skills)), 5)],
   skills_in_common    |->
     Len(SelectSeq(common_skills, LAMBDA c : c[1] \in Range(skills))),
   total_market_skills |-> Cardinality(Range(AllPeerSkills(population)))]

\* _analyze_skills_gap, lines 239-250: one entry per peer, in the order of
\* the peers; overlap_percentage is 10 * round(..., 1)
peer_overlaps(skills, population) ==
  [i \in 1..Len(population) |->
     LET peer_skill_set == {Lowered(s) : s \in Range(population[i].skills)}
         overlap_count  == Cardinality(Range(skills) \cap peer_skill_set)
     IN  [peer_index         |-> i - 1,
          overlap_count      |-> overlap_count,
          overlap_percentage |-> IF peer_skill_set # {}
                                   THEN RoundTenths(overlap_count * 100,
                                                    Cardinality(peer_skill_set))
                                   ELSE 0,
          peer_skills        |-> population[i].skills]]

\* _analyze_skills_gap, line 258: skill_overlaps, the entries sorted by
\* overlap_percentage, highest first
skill_overlaps(overlaps) ==
  LET keyed  == [i \in 1..Len(overlaps) |->
                   [importance |-> overlaps[i].overlap_percentage,
                    entry      |-> overlaps[i]]]
      sorted == SortedByImportance(keyed)
  IN  [i \in 1..Len(sorted) |-> sorted[i].entry]

\* _format_analysis_output, lines 323-335: the profiles of the section
\* peer_profiles
peer_profiles(sample_peers, sorted_overlaps) ==
  [i \in 1..Len(sample_peers) |->
     [experience_years         |-> sample_peers[i].experience_years,
      education                |-> sample_peers[i].education,
      salary                   |-> sample_peers[i].salary,
      skill_count              |-> sample_peers[i].skill_count,
      top_skills               |-> Head2(sample_peers[i].skills, 6),
      skill_overlap_percentage |-> sorted_overlaps[i].overlap_percentage]]

\* EnhancedPeerBenchmarking._categorize_missing_skills
categorize_missing_skills(skills, career, common_skills) ==
  IF career \notin DOMAIN career_skill_mappings
    THEN [core |-> <<>>, intermediate |-> <<>>, emerging |-> <<>>]
    ELSE LET skill_mapping   == career_skill_mappings[career]
             top_peer_skills == {c[1] : c \in Range(Head2(common_skills, 10))}
         IN  [core         |-> SelectSeq(skill_mapping.core,
                                         LAMBDA s : Lowered(s) \notin Range(skills)),
              intermediate |-> SelectSeq(skill_mapping.intermediate,
                                         LAMBDA s : /\ Lowered(s) \notin Range(skills)
                                                    /\ Lowered(s) \in top_peer_skills),
              emerging     |-> SelectSeq(skill_mapping.emerging,
                                         LAMBDA s : /\ Lowered(s) \notin Range(skills)
                                                    /\ Lowered(s) \in top_peer_skills)]

---------------------------------------------------------------------------
(* The state machine                                                       *)

\* no call of _generate_realistic_peer_group is under way
NoGeneration ==
  /\ sample_size = 0
  /\ peers = <<>>
  /\ used_combinations = {}
  /\ attempts = 0
  /\ sample = <<>>
  /\ pc = "idle"

\* the engine after construction, with a request at hand: the catalogs, the
\* caller's skills and target career, and the TF-IDF similarity of the
\* caller's text to each career profile
Init ==
  /\ career_skills_df \in Catalogs
  /\ courses_df \in CourseCatalogs
  /\ user_skills \in SkillArguments
  /\ target_career \in TargetCareers
  /\ similarities \in UniformSimilarityTables(career_skills_df)
  /\ value = 0
  /\ data_list = <<>>
  /\ cap_inputs = <<>>
  /\ NoGeneration
  /\ op = "none"
  /\ result = <<>>

RECURSIVE ListOf(_)
\* the elements of a finite set as a list
ListOf(S) ==
  IF S = {} THEN <<>>
  ELSE LET x == CHOOSE y \in S : TRUE IN <<x>> \o ListOf(S \ {x})

\* the alternative of skill_matching whose expansion appends the synonyms
\* to the caller's own list instead of a copy of it
SkillMatching_no_copy ==
  /\ user_skills.type = "list"
  /\ \E top_n \in TopNs :
       result' = skill_matching(career_skills_df, user_skills.items, similarities, top_n)
  /\ op' = "skill_matching"
  /\ user_skills' =
       [user_skills EXCEPT !.items =
          user_skills.items
            \o ListOf(expand_skills_with_synonyms(user_skills.items)
                        \ Range(user_skills.items))]
  /\ UNCHANGED <<career_skills_df, courses_df, target_career, similarities,
                 value, data_list, cap_inputs, generation>>

\* a call of skill_matching with the caller's skill list
SkillMatching ==
  /\ user_skills.type = "list"
  /\ \E top_n \in TopNs :
       result' = skill_matching(career_skills_df, user_skills.items, similarities, top_n)
  /\ op' = "skill_matching"
  /\ UNCHANGED <<inputs, generation>>

\* a call of gap_analysis
GapAnalysis ==
  /\ result' = gap_analysis(career_skills_df, user_skills, target_career)
  /\ op' = "gap_analysis"
  /\ UNCHANGED <<inputs, generation>>

\* a call of get_learning_path
GetLearningPath ==
  /\ result' \in get_learning_path(career_skills_df, courses_df, target_career, user_skills)
  /\ op' = "get_learning_path"
  /\ UNCHANGED <<inputs, generation>>

Next ==
  \/ SkillMatching
  \/ GapAnalysis
  \/ GetLearningPath

Spec ==
  Init /\ [][Next]_vars

\* skill_matching alone, over every similarity table
InitMatch ==
  /\ career_skills_df \in Catalogs
  /\ courses_df \in CourseCatalogs
  /\ user_skills \in {a \in SkillArguments : a.type = "list"}
  /\ target_career = "Data Scientist"
  /\ similarities \in SimilarityTables(career_skills_df)
  /\ value = 0
  /\ data_list = <<>>
  /\ cap_inputs = <<>>
  /\ NoGeneration
  /\ op = "none"
  /\ result = <<>>

NextMatch ==
  SkillMatching

SpecMatch ==
  InitMatch /\ [][NextMatch]_vars

\* _calculate_percentile alone, over the populations up to MaxPeers values
InitPercentile ==
  /\ career_skills_df = <<>>
  /\ courses_df = <<>>
  /\ user_skills = [type |-> "list", items |-> <<>>, text |-> ""]
  /\ target_career = ""
  /\ similarities = <<>>
  /\ value \in PeerValues
  /\ data_list \in SeqsUpTo(PeerValues, MaxPeers)
  /\ cap_inputs = <<>>
  /\ NoGeneration
  /\ op = "none"
  /\ result = <<>>

\* a call of _calculate_percentile
CalculatePercentile ==
  /\ result' = calculate_percentile(value, data_list)
  /\ op' = "calculate_percentile"
  /\ UNCHANGED <<inputs, generation>>

SpecPercentile ==
  InitPercentile /\ [][CalculatePercentile]_vars

\* the safety checks of skill_matching alone, from every final_score,
\* number of rows and required_match_percentage
InitCaps ==
  /\ career_skills_df = <<>>
  /\ courses_df = <<>>
  /\ user_skills = [type |-> "list", items |-> <<>>, text |-> ""]
  /\ target_career = ""
  /\ similarities = <<>>
  /\ value = 0
  /\ data_list = <<>>
  /\ cap_inputs \in CapInputs
  /\ NoGeneration
  /\ op = "none"
  /\ result = <<>>

\* skill_matching, lines 149-157
SafetyChecks ==
  /\ result' = safety_checks(cap_inputs.final_score, cap_inputs.total_requirements,
                             cap_inputs.required_pct)
  /\ op' = "safety_checks"
  /\ UNCHANGED <<inputs, generation>>

SpecCaps ==
  InitCaps /\ [][SafetyChecks]_vars

\* a call of _generate_realistic_peer_group('Data Scientist', sample_size)
\* at its first statement
InitPeers ==
  /\ career_skills_df = <<>>
  /\ courses_df = <<>>
  /\ user_skills = [type |-> "list", items |-> <<>>, text |-> ""]
  /\ target_career = "Data Scientist"
  /\ similarities = <<>>
  /\ value = 0
  /\ data_list = <<>>
  /\ cap_inputs = <<>>
  /\ sample_size \in 0..MaxSampleSize
  /\ peers = <<>>
  /\ used_combinations = {}
  /\ attempts = 0
  /\ sample = <<>>
  /\ pc = "for"
  /\ op = "none"
  /\ result = <<>>

\* line 88, range(sample_size) not exhausted, and line 90: the next peer
\* starts with attempts = 0
BeginPeer ==
  /\ pc = "for"
  /\ Len(peers) < sample_size
  /\ attempts' = 0
  /\ pc' = "while"
  /\ UNCHANGED <<inputs, sample_size, peers, used_combinations, sample, op, result>>

\* the alternative of the pass of the while loop that does not count a
\* collision
SampleOnce_uncounted ==
  /\ pc = "while"
  /\ attempts < AttemptBudget
  /\ \E draw \in Draws :
       /\ sample' = SampleOf(career_profiles[target_career], draw)
       /\ IF peer_id(sample') \notin used_combinations
            THEN /\ used_combinations' = used_combinations \cup {peer_id(sample')}
                 /\ pc' = "append"
            ELSE UNCHANGED <<used_combinations, pc>>
  /\ UNCHANGED <<inputs, sample_size, peers, attempts, op, result>>

\* the alternative of the pass of the while loop that leaves the loop with
\* whatever it sampled
SampleOnce_unchecked ==
  /\ pc = "while"
  /\ attempts < AttemptBudget
  /\ \E draw \in Draws :
       /\ sample' = SampleOf(career_profiles[target_career], draw)
       /\ used_combinations' = used_combinations \cup {peer_id(sample')}
       /\ pc' = "append"
  /\ UNCHANGED <<inputs, sample_size, peers, attempts, op, result>>

\* lines 91-114: one pass of the while loop; a new peer_id is recorded and
\* leaves the loop, a used one counts as an attempt
SampleOnce ==
  /\ pc = "while"
  /\ attempts < AttemptBudget
  /\ \E draw \in Draws :
       /\ sample' = SampleOf(career_profiles[target_career], draw)
       /\ IF peer_id(sample') \notin used_combinations
            THEN /\ used_combinations' = used_combinations \cup {peer_id(sample')}
                 /\ pc' = "append"
                 /\ UNCHANGED attempts
            ELSE /\ attempts' = attempts + 1
                 /\ UNCHANGED <<used_combinations, pc>>
  /\ UNCHANGED <<inputs, sample_size, peers, op, result>>

\* line 91: the while condition fails after the last attempt
BudgetSpent ==
  /\ pc = "while"
  /\ attempts >= AttemptBudget
  /\ pc' = "append"
  /\ UNCHANGED <<inputs, sample_size, peers, used_combinations, attempts, sample, op, result>>

\* lines 116-125: the peer is appended with the experience, education
\* and salary the loop left and the skills _generate_peer_skills returns
AppendPeer ==
  /\ pc = "append"
  /\ \E drawn \in PeerSkillDraws(career_profiles[target_career]) :
       peers' = Append(peers, PeerOf(sample,
                         generate_peer_skills(career_profiles[target_career], drawn)))
  /\ pc' = "for"
  /\ UNCHANGED <<inputs, sample_size, used_combinations, attempts, sample, op, result>>

\* line 88, range(sample_size) exhausted, and line 127: return peers
ReturnPeers ==
  /\ pc = "for"
  /\ Len(peers) >= sample_size
  /\ pc' = "done"
  /\ result' = peers
  /\ op' = "_generate_realistic_peer_group"
  /\ UNCHANGED <<inputs, sample_size, peers, used_combinations, attempts, sample>>

\* the peer benchmark with the caller's skills and the peers a call of
\* _generate_realistic_peer_group returned
InitBenchmark ==
  /\ career_skills_df = <<>>
  /\ courses_df = <<>>
  /\ user_skills \in {[type |-> "list", items |-> l, text |-> ""] :
                        l \in {<<"Python">>, <<" python", "MLOps ">>,
                               <<"SQL", "Deep Learning", "">>}}
  /\ target_career = "Data Scientist"
  /\ similarities = <<>>
  /\ value = 0
  /\ data_list = <<>>
  /\ cap_inputs = <<>>
  /\ peers \in PeerPopulations(target_career)
  /\ sample_size = Len(peers)
  /\ used_combinations = {peer_id([experience |-> peers[i].experience_years,
                                    education  |-> peers[i].education,
                                    salary     |-> peers[i].salary]) :
                             i \in 1..Len(peers)}
  /\ attempts = 0
  /\ sample = <<>>
  /\ pc = "done"
  /\ op = "_generate_realistic_peer_group"
  /\ result = peers

\* analyze_career_benchmarking, lines 61 and 74: the caller's skills are
\* normalized and _analyze_skills_gap runs on the generated peers
AnalyzeSkillsGap ==
  /\ pc = "done"
  /\ result' = analyze_skills_gap(
                 SelectSeq([i \in 1..Len(user_skills.items) |->
                              Lowered(strip(user_skills.items[i]))],
                           LAMBDA s : s # ""),
                 target_career, peers, most_common(AllPeerSkills(peers), 15))
  /\ op' = "_analyze_skills_gap"
  /\ UNCHANGED <<inputs, generation>>

\* analyze_peer_benchmarking, lines 130-139 and 190-202, over the same
\* peers as the rows of peer_profiles_df for the career: no rows are an
\* error; otherwise the caller's skills are normalized and
\* _categorize_missing_skills gets the 15 most common skills of the peers
CategorizeMissingSkills ==
  /\ pc = "done"
  /\ result' = IF Len(peers) = 0
                 THEN [error |-> "No peer data available"]
                 ELSE [missing_skills |->
                         categorize_missing_skills(
                           [i \in 1..Len(user_skills.items) |->
                              Lowered(strip(user_skills.items[i]))],
                           target_career, most_common(AllPeerSkills(peers), 15))]
  /\ op' = "_categorize_missing_skills"
  /\ UNCHANGED <<inputs, generation>>

\* analyze_career_benchmarking, lines 61-80, over the generated peers: the
\* section peer_profiles of the report for the first 5 peers, or the error
\* for a list without a skill
FormatAnalysisOutput ==
  /\ pc = "done"
  /\ LET user_skills_normalized ==
           SelectSeq([i \in 1..Len(user_skills.items) |->
                        Lowered(strip(user_skills.items[i]))],
                     LAMBDA s : s # "")
     IN  result' = IF Len(user_skills_normalized) = 0
                     THEN [error |-> "Please provide at least one skill"]
                     ELSE [profiles |->
                             peer_profiles(Head2(peers, 5),
                                           skill_overlaps(peer_overlaps(
                                             user_skills_normalized, peers)))]
  /\ op' = "_format_analysis_output"
  /\ UNCHANGED <<inputs, generation>>

SpecBenchmark ==
  InitBenchmark
    /\ [][AnalyzeSkillsGap \/ CategorizeMissingSkills \/ FormatAnalysisOutput]_vars

NextPeers ==
  \/ BeginPeer
  \/ SampleOnce
  \/ BudgetSpent
  \/ AppendPeer
  \/ ReturnPeers

\* a call of _generate_realistic_peer_group; it runs on its own thread of
\* control to its return, so a statement that can be executed is executed
FairSpecPeers ==
  InitPeers /\ [][NextPeers]_vars /\ WF_vars(NextPeers)

---------------------------------------------------------------------------
(* Properties                                                              *)

\* the result in hand is a record that gap_analysis or get_learning_path
\* returned under the key "error"
IsErrorResult ==
  /\ op \in {"gap_analysis", "get_learning_path"}
  /\ "error" \in DOMAIN result

\* the result in hand is a gap analysis without an error
IsGapResult ==
  /\ op = "gap_analysis"
  /\ "error" \notin DOMAIN result

\* the caller's skills argument is an empty list
EmptySkillList ==
  user_skills.type = "list" /\ Len(user_skills.items) = 0

\* the requirement rows gap_analysis works on for the target career
TargetRequirements ==
  CareerRows(career_skills_df, target_career) \o get_soft_skills_for_career(target_career)

\* C1: for a non-empty skill list, the match_percentage skill_matching
\* reports for every career of the catalog (each has at least one
\* requirement) lies in [0, 100], i.e. 0..1000 tenths, after the bonus and
\* the safety caps.
C1_MatchPercentageInRange ==
  (op = "skill_matching" /\ Len(user_skills.items) > 0)
    => \A i \in 1..Len(result) :
         result[i].match_percentage >= 0 /\ result[i].match_percentage <= 1000

\* C1 happens: a career whose base score plus bonus exceeds 100 is
\* reported with a match_percentage within the range.
C1_Witness ==
  /\ op = "skill_matching"
  /\ Len(user_skills.items) > 0
  /\ \E i \in 1..Len(result) :
       /\ result[i].base_score + 10 * result[i].bonus_score > 1000
       /\ result[i].match_percentage <= 1000

\* C2: every career with fewer than 8 requirement rows in the catalog is
\* reported by skill_matching with a match_percentage of at most 75,
\* whatever the skills, the bonus and the similarity are.
C2_SmallCatalogCappedAt75 ==
  op = "skill_matching"
    => \A i \in 1..Len(result) :
         Len(CareerRows(career_skills_df, result[i].career)) < 8
           => result[i].match_percentage <= 750

\* C2 happens: a career with fewer than 8 rows whose base score plus bonus
\* is above 75 is reported at exactly 75.
C2_Witness ==
  /\ op = "skill_matching"
  /\ \E i \in 1..Len(result) :
       /\ Len(CareerRows(career_skills_df, result[i].career)) < 8
       /\ result[i].base_score + 10 * result[i].bonus_score > 750
       /\ result[i].match_percentage = 750

\* C3: in every result gap_analysis returns without an error,
\* required_covered + required_missing_count = total_required, and
\* required_covered, required_missing_count and optional_missing_count are
\* not negative.
C3_RequiredCountsAddUp ==
  IsGapResult
    => /\ result.required_covered + result.required_missing_count = result.total_required
       /\ result.total_required
            = Len(SelectSeq(TargetRequirements, LAMBDA r : r.is_required))
       /\ result.required_covered >= 0
       /\ result.required_missing_count >= 0
       /\ result.optional_missing_count >= 0

\* C3 happens: a gap analysis in which the user covers a required and an
\* optional requirement and misses a required one.
C3_Witness ==
  /\ IsGapResult
  /\ result.required_covered > 0
  /\ result.optional_covered > 0
  /\ result.required_missing_count > 0

\* C4: called with an empty skill list, skill_matching and gap_analysis
\* both return an EmptyInput error result and no partial result (no
\* scores, no user_has and no missing lists).
C4_EmptyListIsTaggedError ==
  (op \in {"skill_matching", "gap_analysis"} /\ EmptySkillList)
    => /\ "error" \in DOMAIN result
       /\ "user_has" \notin DOMAIN result
       /\ "required_missing" \notin DOMAIN result

\* C5: for a target career absent from the catalog, gap_analysis returns
\* the error result (a record with the key "error" alone, message "Career
\* not found"), and get_learning_path returns that same result, with no
\* phase and no timeline.
C5_AbsentCareerIsNotFound ==
  (/\ op \in {"gap_analysis", "get_learning_path"}
   /\ \A i \in 1..Len(career_skills_df) : career_skills_df[i].career # target_career)
    => /\ IsErrorResult
       /\ result = [error |-> "Career not found"]
       /\ result = gap_analysis(career_skills_df, user_skills, target_career)

\* C5 happens: get_learning_path has returned for a career that no row of
\* the catalog names.
C5_Witness ==
  /\ op = "get_learning_path"
  /\ target_career \notin Range(CareersOf(career_skills_df))
  /\ IsErrorResult

\* C6: gap_analysis with the skill list ["SQL - Intermediate"], for a
\* career whose catalog has the requirement SQL with difficulty Advanced,
\* reports SQL in user_has with difficulty Intermediate.
C6_ListEntryLevelIsParsed ==
  (/\ IsGapResult
   /\ user_skills.type = "list"
   /\ user_skills.items = <<"SQL - Intermediate">>
   /\ \E r \in Range(TargetRequirements) : r.skill = "SQL" /\ r.difficulty = "Advanced")
    => \E h \in Range(result.user_has) : h.skill = "SQL" /\ h.difficulty = "Intermediate"

\* the entries of the caller's skills argument, as typed: the items of a
\* list, the comma-separated pieces of a text
TypedEntries ==
  IF user_skills.type = "list" THEN user_skills.items
  ELSE StripNonEmpty(split(user_skills.text, ","))

\* the levels the caller declared for a skill name: the level of every
\* entry 'Skill (Level)', 'Skill - Level' or 'Skill : Level' naming it
DeclaredLevels(skill) ==
  {ParseEntry(e).level :
     e \in {t \in Range(TypedEntries) :
              /\ LazyMatch(t, "paren").matched \/ LazyMatch(t, "dash").matched
              /\ lower(ParseEntry(t).skill) = lower(skill)}}

\* C7: whatever entries the caller gives, a requirement reported in
\* user_has for which the caller declared a level carries a level the
\* caller declared for that skill, not the level of another entry.
C7_DeclaredLevelIsReported ==
  IsGapResult
    => \A h \in Range(result.user_has) :
         DeclaredLevels(h.skill) # {} => h.difficulty \in DeclaredLevels(h.skill)

\* C8: completion_percentage is 100 * (importance of the required
\* requirements the user has) / (importance of all required requirements
\* of the career) rounded to one decimal, 0 when the career requires
\* nothing: in tenths, the integer nearest to 1000 * has / all.
C8_CompletionIsImportanceWeighted ==
  IsGapResult
    => LET all == SumImportance(SelectSeq(TargetRequirements, LAMBDA r : r.is_required))
           has == SumImportance(SelectSeq(result.user_has, LAMBDA h : h.is_required))
           d   == result.completion_percentage * all - 1000 * has
       IN  IF all = 0 THEN result.completion_percentage = 0
           ELSE 2 * d <= all /\ -2 * d <= all

\* C8 happens: the user has 36 of the 45 points of required importance and
\* the completion reported is 80.0.
C8_Witness ==
  /\ IsGapResult
  /\ SumImportance(SelectSeq(TargetRequirements, LAMBDA r : r.is_required)) = 45
  /\ SumImportance(SelectSeq(result.user_has, LAMBDA h : h.is_required)) = 36
  /\ result.completion_percentage = 800

\* the names of the entries of the caller's skills argument, as
\* gap_analysis reads them
EntryNamesGiven ==
  {e.skill : e \in Range(ParsedUserSkills(user_skills))}

\* C9: each normalizer turns 'ML' and 'Machine Learning' into a set that
\* holds 'machine learning', so either token satisfies a requirement
\* 'Machine Learning' in gap_analysis and in skill_matching.
C9_MLMeansMachineLearning ==
  /\ \A token \in {"ML", "Machine Learning"} :
       /\ "machine learning" \in LoweredSynonyms(token)
       /\ "machine learning" \in LoweredExpansion(token)
  /\ (/\ IsGapResult
      /\ EntryNamesGiven \cap {"ML", "Machine Learning"} # {}
      /\ \E r \in Range(TargetRequirements) : r.skill = "Machine Learning")
       => \E h \in Range(result.user_has) : h.skill = "Machine Learning"
  /\ (/\ op = "skill_matching"
      /\ Range(user_skills.items) \cap {"ML", "Machine Learning"} # {})
       => \A i \in 1..Len(result) :
            (\E r \in Range(CareerRows(career_skills_df, result[i].career)) :
               r.skill = "Machine Learning")
              => \E e \in Range(result[i].matched_skills["core"]) :
                   e.skill = "Machine Learning"

\* C9 happens: the user typed 'ML', not 'Machine Learning', and the
\* requirement 'Machine Learning' is in user_has.
C9_Witness ==
  /\ IsGapResult
  /\ "ML" \in EntryNamesGiven
  /\ "Machine Learning" \notin EntryNamesGiven
  /\ \E h \in Range(result.user_has) : h.skill = "Machine Learning"

\* the number of values of the population that are at most value
InclusiveCount ==
  Cardinality({i \in 1..Len(data_list) : data_list[i] <= value})

\* C10 as stated: for a non-empty population the percentile returned is
\* exactly 100 * |{x <= value}| / |population|.
C10_PercentileIsExactRank ==
  (op = "calculate_percentile" /\ Len(data_list) > 0)
    => result * Len(data_list) = 100 * InclusiveCount

\* C10: for a non-empty population the percentile returned is an integer
\* p in [0, 100] with p <= 100 * |{x <= value}| / |population| <= p + 1:
\* the inclusive rank cut down to an integer by int().  (The upper bound
\* is met only where the double product falls just short of a whole rank,
\* which no population of fewer than 50 values does.)
C10_PercentileIsTruncatedRank ==
  (op = "calculate_percentile" /\ Len(data_list) > 0)
    => /\ result \in 0..100
       /\ result * Len(data_list) <= 100 * InclusiveCount
       /\ 100 * InclusiveCount <= (result + 1) * Len(data_list)

\* C10 happens: a population that the inclusive rank does not divide
\* evenly, with values on both sides of the value ranked, and the
\* percentile returned is below the exact rank.
C10_Witness ==
  /\ op = "calculate_percentile"
  /\ Len(data_list) > 0
  /\ InclusiveCount > 0
  /\ InclusiveCount < Len(data_list)
  /\ result * Len(data_list) < 100 * InclusiveCount

\* the condition of a safety check (named by its cap) on the score x
CapApplies(cap, x) ==
  CASE cap = 75 -> cap_inputs.total_requirements < 8 /\ FracLt(FracInt(75), x)
    [] cap = 85 -> FracLt(FracInt(90), x) /\ FracLt(cap_inputs.required_pct, FracInt(80))
    [] cap = 65 -> FracLt(FracInt(70), x) /\ FracLt(cap_inputs.required_pct, FracInt(60))

\* the minimum of the uncapped score and of every cap whose condition
\* holds for the uncapped score
MinOverCaps ==
  LET candidates == {cap_inputs.final_score}
                      \cup {FracInt(cap) : cap \in {c \in {75, 85, 65} :
                                                     CapApplies(c, cap_inputs.final_score)}}
  IN  CHOOSE m \in candidates : \A c \in candidates : FracLe(m, c)

\* one safety check applied to the score x
CapApplied(cap, x) ==
  IF CapApplies(cap, x) THEN FracMin(FracInt(cap), x) ELSE x

\* the orders the three safety checks can be applied in
CapOrders ==
  {o \in [1..3 -> {75, 85, 65}] : \A i, j \in 1..3 : i # j => o[i] # o[j]}

\* C11: from every final_score after min(100, ...), number of requirement
\* rows and required_match_percentage, the score the safety checks of
\* skill_matching leave is the minimum of the uncapped score and of every
\* cap (75, 85, 65) whose condition holds for the uncapped score, and it
\* is what the checks give when applied in any other order.
C11_CapsAreMinimumInAnyOrder ==
  op = "safety_checks"
    => /\ result = MinOverCaps
       /\ \A o \in CapOrders :
            CapApplied(o[3], CapApplied(o[2], CapApplied(o[1], cap_inputs.final_score)))
              = result

\* C11 happens: a score above 90 of a career with fewer than 8 rows and
\* less than 60% of its required skills matched: all three conditions hold
\* for the uncapped score, the first check leaves 75 and the result is 65.
C11_Witness ==
  /\ op = "safety_checks"
  /\ cap_inputs.total_requirements < 8
  /\ FracLt(FracInt(90), cap_inputs.final_score)
  /\ FracLt(cap_inputs.required_pct, FracInt(60))
  /\ result = FracInt(65)

\* the complementary-skills bonus inside the bonus_score of a reported
\* match: what is left of it after the coverage bonus (15, 10 or 5 by the
\* share of required skills matched) and the similarity bonus
ComplementaryBonusOf(match) ==
  LET matched  == match.score_breakdown.required_matches
      required == match.score_breakdown.total_required
      coverage_bonus ==
        IF matched = 0 THEN 0
        ELSE IF 100 * matched >= 80 * required THEN 15
        ELSE IF 100 * matched >= 60 * required THEN 10
        ELSE IF 100 * matched >= 40 * required THEN 5
        ELSE 0
  IN  match.bonus_score - coverage_bonus
        - (IF match.semantic_similarity > 30 THEN 5 ELSE 0)

\* C12: in every match skill_matching reports, the 5-point
\* complementary-skills bonus is granted exactly when the number of
\* requirements matched exactly is at least half the number of required
\* requirements of the career.
C12_ComplementaryBonusNeedsHalfRequired ==
  op = "skill_matching"
    => \A i \in 1..Len(result) :
         (ComplementaryBonusOf(result[i]) = 5)
           <=> (2 * result[i].skills_covered >= result[i].total_required_skills)

\* the synonyms the table lists under a requirement's skill, lower-cased,
\* the skill's own name included
RequirementSynonyms(skill) ==
  {lower(skill)}
    \cup UNION {{lower(s) : s \in Range(skill_synonym_mapping[i][2])} :
                  i \in {k \in 1..Len(skill_synonym_mapping) :
                           skill_synonym_mapping[k][1] = lower(skill)}}

\* the user's expanded skill set of gap_analysis: the keys of skill_mapping
UserExpandedSet ==
  UNION {MappingKeys(e) : e \in Range(ParsedUserSkills(user_skills))}

\* C13: gap_analysis reports a requirement of the target career in
\* user_has exactly when some synonym of the requirement's skill, its own
\* name included, is in the user's expanded skill set; a user skill
\* 'Spring' satisfies a requirement 'Spring Boot'.
C13_AnySynonymOfRequirementCounts ==
  IsGapResult
    => \A r \in Range(TargetRequirements) :
         (\E h \in Range(result.user_has) : h.skill = r.skill)
           <=> (RequirementSynonyms(r.skill) \cap UserExpandedSet # {})

\* the entries of the synonym table a token could denote: the token is the
\* canonical name or one of the synonyms, case-insensitively
MatchingEntries(token) ==
  {i \in 1..Len(skill_synonym_mapping) :
     \/ lower(token) = lower(skill_synonym_mapping[i][1])
     \/ lower(token) \in {lower(s) : s \in Range(skill_synonym_mapping[i][2])}}

\* C14: for every entry of the user's skills gap_analysis normalizes, the
\* normalizer returns the synonyms of every canonical skill whose synonym
\* list holds the token, not only those of the first such entry of the
\* table.
C14_AllMatchingEntriesAreReturned ==
  IsGapResult
    => \A e \in Range(ParsedUserSkills(user_skills)) :
         \A i \in MatchingEntries(e.skill) :
           {lower(s) : s \in Range(skill_synonym_mapping[i][2])} \subseteq MappingKeys(e)

\* how many entries of a list carry the skill name
CountOf(entries, skill) ==
  Len(SelectSeq(entries, LAMBDA e : e.skill = skill))

\* C15: gap_analysis places every requirement row of the target career,
\* the appended soft-skill rows included, in exactly one of user_has,
\* required_missing and optional_missing: per skill name, the required
\* rows are the required entries of user_has plus the entries of
\* required_missing, the optional rows are the optional entries of
\* user_has plus the entries of optional_missing, and the three lengths add
\* up to total_skills_needed.
C15_RequirementsArePartitioned ==
  IsGapResult
    => /\ result.total_skills_needed = Len(TargetRequirements)
       /\ Len(result.user_has) + Len(result.required_missing)
            + Len(result.optional_missing) = result.total_skills_needed
       /\ \A r \in Range(TargetRequirements) :
            /\ CountOf(RequiredRows(TargetRequirements), r.skill)
                 = CountOf(RequiredRows(result.user_has), r.skill)
                     + CountOf(result.required_missing, r.skill)
            /\ CountOf(SelectSeq(TargetRequirements, LAMBDA q : ~q.is_required), r.skill)
                 = CountOf(SelectSeq(result.user_has, LAMBDA q : ~q.is_required), r.skill)
                     + CountOf(result.optional_missing, r.skill)

\* C15 happens: the three lists are all non-empty and one of the appended
\* soft-skill rows is among the missing ones.
C15_Witness ==
  /\ IsGapResult
  /\ Len(result.user_has) > 0
  /\ Len(result.required_missing) > 0
  /\ Len(result.optional_missing) > 0
  /\ \E m \in Range(result.required_missing) \cup Range(result.optional_missing) :
       m.category = "soft"

\* the result in hand is a learning path without an error
IsPathResult ==
  /\ op = "get_learning_path"
  /\ "error" \notin DOMAIN result

\* the position of a level among Beginner, Intermediate, Advanced
LevelRank(level) ==
  CHOOSE i \in 1..Len(LevelNames) : LevelNames[i] = level

\* C16: in every learning path, a missing requirement tagged 'core' whose
\* catalog difficulty is Intermediate or Advanced stands in a phase earlier
\* than the phase of that difficulty.
C16_CoreIsPromotedToEarlierPhase ==
  IsPathResult
    => \A p \in Range(result.phases) :
         \A s \in Range(p.skills) :
           (s.category = "core" /\ s.difficulty \in {"Intermediate", "Advanced"})
             => LevelRank(p.level) < LevelRank(s.difficulty)

\* C17: in every learning path, every skill of a phase for which the course
\* table holds a course has a course of its own among the courses of that
\* phase, a course rated below 4.3 (flagged) when the table has none rated
\* 4.3 or more for the skill.
C17_EverySkillWithCoursesGetsOne ==
  IsPathResult
    => \A p \in Range(result.phases) :
         \A s \in Range(p.skills) :
           (\E c \in Range(courses_df) : c.skill = s.skill)
             => /\ \E c \in Range(p.courses) : c.skill = s.skill
                /\ (\A c \in Range(courses_df) : c.skill = s.skill => c.rating < 43)
                     => \E c \in Range(p.courses) :
                          c.skill = s.skill /\ c.low_rating_warning

\* the (experience, education, salary range) tuple of a generated peer
PeerIdOfPeer(p) ==
  <<p.experience_years, p.education, p.salary \div 5000>>

NormalizedSkills ==
  [i \in 1..Len(user_skills.items) |-> Lowered(strip(user_skills.items[i]))]

\* C19: for the career profile and the user's skills at hand, the missing
\* core and missing emerging lists either peer benchmark reports are the
\* lists it reports for every other peer population: they do not depend on
\* the sampled peers.
C19_MissingListsIgnoreThePeers ==
  /\ op = "_analyze_skills_gap"
       => \A population \in PeerPopulations(target_career) :
            LET other == analyze_skills_gap(SelectSeq(NormalizedSkills, LAMBDA s : s # ""),
                                            target_career, population,
                                            most_common(AllPeerSkills(population), 15))
            IN  /\ other.missing_skills.core = result.missing_skills.core
                /\ other.missing_skills.emerging = result.missing_skills.emerging
  /\ (op = "_categorize_missing_skills" /\ "error" \notin DOMAIN result)
       => \A population \in PeerPopulations(target_career) \ {<<>>} :
            LET other == categorize_missing_skills(NormalizedSkills, target_career,
                                                   most_common(AllPeerSkills(population), 15))
            IN  /\ other.core = result.missing_skills.core
                /\ other.emerging = result.missing_skills.emerging

\* what the Category Matcher returns as weighted_match_percentage for a
\* skill list and each career of a requirement table
MatcherPercentages(df, skills) ==
  [c \in Range(CareersOf(df)) |->
     calculate_weighted_matching(UserSkillSet(skills), CareerRows(df, c),
                                 RequiredRows(CareerRows(df, c))
                                ).weighted_match_percentage]

RECURSIVE WeightOver(_, _)
\* weight x 10 summed over the rows whose lower-cased skill is in the set
WeightOver(rows, names) ==
  IF Len(rows) = 0 THEN 0
  ELSE (IF Lowered(rows[1].skill) \in names THEN rows[1].weight ELSE 0)
         + WeightOver(Tail(rows), names)

\* C21: for every career skill_matching reports, the Category Matcher's
\* weighted_match_percentage is 100 x the weight x 10 summed over the
\* requirements whose skill is in the user's normalized skill set, divided
\* by the weight x 10 summed over all requirements of the career; over a
\* career without requirements, where that denominator is 0, it is 0.
C21_WeightedMatchIsWeightRatio ==
  op = "skill_matching"
    => /\ \A i \in 1..Len(result) :
            LET rows    == CareerRows(career_skills_df, result[i].career)
                names   == UserSkillSet(user_skills.items)
                matched == WeightOver(rows, names)
                all     == WeightOver(rows, {Lowered(r.skill) : r \in Range(rows)})
            IN  /\ all > 0
                /\ calculate_weighted_matching(names, rows, RequiredRows(rows)
                                              ).weighted_match_percentage
                     = Frac(100 * matched, all)
                /\ result[i].weighted_match_percentage
                     = FracRoundTenths(Frac(100 * matched, all))
                /\ result[i].score_breakdown.total_weighted_score = matched
                /\ result[i].score_breakdown.total_possible_weighted_score = all
       /\ calculate_weighted_matching(UserSkillSet(user_skills.items), <<>>, <<>>
                                     ).weighted_match_percentage = FracInt(0)

\* C21 happens: a career is matched in part, by rows of unequal weight, so
\* that the weight ratio is not the ratio of the row counts.
C21_Witness ==
  /\ op = "skill_matching"
  /\ \E i \in 1..Len(result) :
       /\ result[i].score_breakdown.total_weighted_score > 0
       /\ result[i].score_breakdown.total_weighted_score
            < result[i].score_breakdown.total_possible_weighted_score
       /\ result[i].skills_covered * result[i].score_breakdown.total_possible_weighted_score
            # result[i].score_breakdown.total_weighted_score * result[i].total_career_skills

\* the number of rows of a career that are of a category and whose
\* lower-cased skill is one of the names
CountInCategory(rows, cat, names) ==
  Cardinality({k \in 1..Len(rows) :
                 rows[k].category = cat /\ Lowered(rows[k].skill) \in names})

\* C22: for every career skill_matching reports and each of the four
\* categories, the coverage of a category that has requirements in the
\* career is 100 x matched_in_category / total_in_category and lies in
\* [0,100], and the coverage of a category without a requirement in the
\* career is left at 0.
C22_CategoryCoverageIsCountRatio ==
  op = "skill_matching"
    => \A i \in 1..Len(result) : \A cat \in Range(categories) :
         LET rows    == CareerRows(career_skills_df, result[i].career)
             total   == CountInCategory(rows, cat, {Lowered(r.skill) : r \in Range(rows)})
             matched == CountInCategory(rows, cat, UserSkillSet(user_skills.items))
             score   == result[i].category_scores[cat]
         IN  /\ DOMAIN result[i].category_scores = Range(categories)
             /\ total > 0 => /\ score = Frac(100 * matched, total)
                             /\ FracLe(FracInt(0), score)
                             /\ FracLe(score, FracInt(100))
             /\ total = 0 => score = FracInt(0)

\* C22 happens: one reported career has a category covered in part and
\* a category without any requirement.
C22_Witness ==
  /\ op = "skill_matching"
  /\ \E i \in 1..Len(result) :
       LET rows == CareerRows(career_skills_df, result[i].career)
       IN  /\ \E cat \in Range(categories) :
                /\ FracLt(FracInt(0), result[i].category_scores[cat])
                /\ FracLt(result[i].category_scores[cat], FracInt(100))
           /\ \E cat \in Range(categories) :
                \A k \in 1..Len(rows) : rows[k].category # cat

\* C23: in every learning path a missing requirement of the soft category
\* stands in the phase its skill is assigned by policy, whatever its
\* catalog difficulty: Communication and Teamwork in the Beginner phase,
\* Problem Solving and Critical Thinking in the Intermediate phase,
\* Leadership and Strategic Thinking in the Advanced phase.
C23_SoftSkillsFollowPlacementPolicy ==
  IsPathResult
    => \A p \in Range(result.phases) :
         \A s \in Range(p.skills) :
           s.category = "soft"
             => /\ s.skill \in {"Communication", "Teamwork"} => p.level = "Beginner"
                /\ s.skill \in {"Problem Solving", "Critical Thinking"}
                     => p.level = "Intermediate"
                /\ s.skill \in {"Leadership", "Strategic Thinking"}
                     => p.level = "Advanced"

RECURSIVE CourseHoursOf(_)
\* the hours of the courses selected over a list of phases
CourseHoursOf(phases) ==
  IF Len(phases) = 0 THEN 0
  ELSE SumHours(phases[1].courses) + CourseHoursOf(Tail(phases))

\* C24: in every learning path, total_course_hours is the sum of the hours
\* of the courses selected over the returned phases, total_study_hours is
\* floor(1.2 x total_course_hours), and weeks_10h, weeks_15h and weeks_20h
\* are total_study_hours div 10, 15 and 20, raised to 1 where the quotient
\* is 0, so each is at least 1 also when no course is selected.
C24_TimelineIsBufferedAndAtLeastAWeek ==
  IsPathResult
    => LET hours == CourseHoursOf(result.phases)
           study == (12 * hours) \div 10
           t     == result.timeline
           Weeks(pace) == IF study \div pace >= 1 THEN study \div pace ELSE 1
       IN  /\ t.total_course_hours = hours
           /\ t.total_study_hours = study
           /\ t.weeks_10h = Weeks(10) /\ t.weeks_10h >= 1
           /\ t.weeks_15h = Weeks(15) /\ t.weeks_15h >= 1
           /\ t.weeks_20h = Weeks(20) /\ t.weeks_20h >= 1

\* C24 happens: courses are selected, the 20% buffer is cut to a whole
\* number of hours, and these are fewer than 20, so that the week count at
\* 20 hours is raised from 0 to 1.
C24_Witness ==
  /\ IsPathResult
  /\ result.timeline.total_course_hours > 0
  /\ 10 * result.timeline.total_study_hours # 12 * result.timeline.total_course_hours
  /\ result.timeline.total_study_hours < 20
  /\ result.timeline.weeks_20h = 1

\* the position of a skill among the requirement rows of the target career
RequirementIndex(skill) ==
  CHOOSE k \in 1..Len(TargetRequirements) : TargetRequirements[k].skill = skill

\* a list is ordered by importance, highest first, and its entries of
\* equal importance stand in the order of the requirement rows
InImportanceOrder(missing) ==
  \A i, j \in 1..Len(missing) :
    i < j => \/ missing[i].importance > missing[j].importance
             \/ /\ missing[i].importance = missing[j].importance
                /\ RequirementIndex(missing[i].skill) < RequirementIndex(missing[j].skill)

\* C25: the required_missing and the optional_missing list of every gap
\* analysis are ordered by importance, highest first, and requirements of
\* equal importance keep the order of the career's requirement rows.
C25_MissingListsSortedByImportance ==
  IsGapResult
    => /\ InImportanceOrder(result.required_missing)
       /\ InImportanceOrder(result.optional_missing)

\* C25 happens: a missing list holds two requirements of equal importance
\* and a requirement that the sort moved ahead of an earlier row.
C25_Witness ==
  /\ IsGapResult
  /\ \E missing \in {result.required_missing, result.optional_missing} :
       /\ \E i, j \in 1..Len(missing) :
            i < j /\ missing[i].importance = missing[j].importance
       /\ \E i, j \in 1..Len(missing) :
            /\ i < j
            /\ RequirementIndex(missing[i].skill) > RequirementIndex(missing[j].skill)

\* the (experience, education, salary range) tuples of the peers before
\* position n of the group
EarlierPeerIds(n) ==
  {PeerIdOfPeer(peers[i]) : i \in 1..(n - 1)}

\* C26: in a peer group under generation, a sample that left the retry
\* loop with attempts below the budget of 50 has a tuple that no peer
\* generated before it has, and so has the peer appended from it; the
\* tuple of an earlier peer is repeated only by a peer whose 50 attempts
\* were all spent.
C26_FreshTupleUnlessBudgetSpent ==
  /\ (pc = "append" /\ attempts < AttemptBudget)
       => peer_id(sample) \notin EarlierPeerIds(Len(peers) + 1)
  /\ (pc \in {"for", "done"} /\ Len(peers) > 0)
       => /\ PeerIdOfPeer(peers[Len(peers)]) = peer_id(sample)
          /\ attempts < AttemptBudget
               => PeerIdOfPeer(peers[Len(peers)]) \notin EarlierPeerIds(Len(peers))
          /\ PeerIdOfPeer(peers[Len(peers)]) \in EarlierPeerIds(Len(peers))
               => attempts = AttemptBudget

\* C26 happens: the second peer of a group was accepted after collisions
\* and before its budget ran out.
C26_Witness ==
  /\ pc = "for"
  /\ Len(peers) = 2
  /\ attempts > 0
  /\ attempts < AttemptBudget
  /\ PeerIdOfPeer(peers[1]) # PeerIdOfPeer(peers[2])

\* C27: for every career skill_matching reports, with the requirement
\* table and the career's semantic similarity as they are, the
\* match_percentage for the user's list with one more entry is not below
\* the match_percentage reported for the list.
C27_AddingASkillNeverLowersTheMatch ==
  op = "skill_matching"
    => \A i \in 1..Len(result) : \A entry \in AllEntries :
         CareerMatch(career_skills_df,
                     UserSkillSet(Append(user_skills.items, entry)),
                     result[i].career,
                     similarities[result[i].career]).match_percentage
           >= result[i].match_percentage

\* 10 * the overlap, rounded to one decimal, between the caller's
\* normalized skills and the skills of a peer
OverlapWith(peer) ==
  LET mine   == {s \in {Lowered(strip(user_skills.items[i])) :
                          i \in 1..Len(user_skills.items)} : s # ""}
      theirs == {Lowered(s) : s \in Range(peer.skills)}
  IN  IF theirs = {} THEN 0
      ELSE RoundTenths(100 * Cardinality(mine \cap theirs), Cardinality(theirs))

\* C28: in the report of analyze_career_benchmarking, the profile shown
\* for the i-th sample peer carries as skill_overlap_percentage the overlap
\* between the user's skills and the skills of that i-th peer.
C28_ShownOverlapIsThatPeersOverlap ==
  (op = "_format_analysis_output" /\ "error" \notin DOMAIN result)
    => \A i \in 1..Len(result.profiles) :
         /\ result.profiles[i].top_skills = Head2(peers[i].skills, 6)
         /\ result.profiles[i].skill_overlap_percentage = OverlapWith(peers[i])

\* C29: every peer of a generated group, whose skills are what
\* _generate_peer_skills returned for it, has at least 4 skills.
C29_EveryPeerHasFourSkills ==
  \A i \in 1..Len(peers) :
    /\ peers[i].skill_count = Len(peers[i].skills)
    /\ Len(peers[i].skills) >= 4

RECURSIVE PhaseSkillsOf(_)
\* the skills of a list of phases, phase after phase
PhaseSkillsOf(phases) ==
  IF Len(phases) = 0 THEN <<>>
  ELSE phases[1].skills \o PhaseSkillsOf(Tail(phases))

\* the number of positions of a list that hold an entry
Occurrences(list, entry) ==
  Cardinality({k \in 1..Len(list) : list[k] = entry})

\* C30: in every learning path, the skills of the returned phases are the
\* required_missing entries and the first 3 optional_missing entries of the
\* gap analysis for the same request and no others, each of them in one
\* phase and once, and no returned phase is without skills.
C30_PhasesHoldTheMissingSkillsOnce ==
  IsPathResult
    => LET gap      == gap_analysis(career_skills_df, user_skills, target_career)
           expected == gap.required_missing \o Head2(gap.optional_missing, 3)
           placed   == PhaseSkillsOf(result.phases)
       IN  /\ Range(placed) = Range(expected)
           /\ Len(placed) = Len(expected)
           /\ \A s \in Range(expected) :
                Occurrences(placed, s) = Occurrences(expected, s)
           /\ \A p \in Range(result.phases) : Len(p.skills) > 0
           /\ \A i, j \in 1..Len(result.phases) :
                i < j => LevelRank(result.phases[i].level) < LevelRank(result.phases[j].level)

\* C30 happens: the gap analysis has more than 3 optional_missing skills
\* and a required one, and one of the three phases got no skill.
C30_Witness ==
  /\ IsPathResult
  /\ Len(result.phases) = 2
  /\ LET gap == gap_analysis(career_skills_df, user_skills, target_career)
     IN  /\ Len(gap.optional_missing) > 3
         /\ Len(gap.required_missing) > 0
=============================================================================
